---- MODULE Spec2Model ----
(***************************************************************************)
(* Polaris browser IDE: the editor tab store (zustand), the inline         *)
(* suggestion extension (CodeMirror) and their collaborators, as state     *)
(* machines.                                                               *)
(***************************************************************************)
EXTENDS Integers, Sequences, FiniteSets, TLC

VARIABLES
    tabs,               \* EditorStore.tabs : Map<projectId, TabState>
    defaultTabState,    \* the module-level defaultTabState object
    lastCall,           \* history: the store call that produced this state
    lastRead            \* history: the getTabState call just made, if any

VARIABLES
    mounted,                \* the editor views that exist
    doc,                    \* view.state.doc, per view
    cursor,                 \* view.state.selection.main.head, per view
    suggestion,             \* view.state.field(suggestionState), per view
    decorations,            \* renderPlugin.decorations, per view
    debounceTimer,          \* module-level: id of the last timer set, 0 = null
    isWaitingForSuggestion, \* module-level flag
    currentAbortController, \* module-level: id of the last controller, 0 = null
    timers,                 \* the browser's pending setTimeout callbacks
    requests,               \* the fetches issued, by id
    evCount,                \* history: number of triggerSuggestion calls so far
    burstStart,             \* history: first event of the current burst
    superseded,             \* history: events followed by another while pending
    firedEvs,               \* history: events whose timer callback has run
    blankFired,             \* history: of those, the ones that found a blank doc
    lastResult,             \* history: what the last event's request returned
    lastStep                \* history: the step that produced this state

VARIABLES
    qeDoc,              \* view.state.doc of the editor quick-edit runs in
    qeSelection,        \* view.state.selection.main, as [from, to]
    quickEditState,     \* view.state.field(quickEditState)
    quickEditTooltips,  \* view.state.field(quickEditTooltipField)
    tooltipDom,         \* the tooltip DOM built by create(): its submit button
    editorView,         \* quick-edit module-level: the captured view, or null
    qeAbortController,  \* quick-edit module-level currentAbortController, 0 = null
    qeRequests,         \* the quick-edit fetches issued, by id
    qeTyped,            \* history: number of characters the user has typed
    qeLast              \* history: the step that produced this state

VARIABLES
    files,              \* the "files" table: the set of its documents
    nextFileId,         \* the _id the next insert returns
    fsNow,              \* Date.now() of the next mutation
    projectUpdatedAt,   \* projects[FileProject].updatedAt
    storage,            \* _storage: the ids of the blobs stored
    lastFs              \* history: the file-store call just made, its result

VARIABLES
    asActiveTabId,      \* EditorView: activeTabId of the project, or null
    timeoutRef,         \* EditorView: timeoutRef.current, 0 = null
    asTimers,           \* the browser's pending autosave setTimeout callbacks
    serverContent,      \* content of each file as updateFile has stored it
    lastEdited,         \* history: the content each file's editor last reported
    asEdits,            \* history: number of onChange calls so far
    lastUpdate          \* history: the updateFile call just made, if any

tabVars == <<tabs, defaultTabState, lastCall, lastRead>>

quickVars == <<qeDoc, qeSelection, quickEditState, quickEditTooltips,
               tooltipDom, editorView, qeAbortController, qeRequests, qeTyped,
               qeLast>>

suggVars == <<mounted, doc, cursor, suggestion, decorations, debounceTimer,
              isWaitingForSuggestion, currentAbortController, timers, requests,
              evCount, burstStart, superseded, firedEvs, blankFired, lastResult, lastStep>>

fileVars == <<files, nextFileId, fsNow, projectUpdatedAt, storage, lastFs>>

autoVars == <<asActiveTabId, timeoutRef, asTimers, serverContent, lastEdited,
              asEdits, lastUpdate>>

vars == <<tabVars, suggVars, quickVars, fileVars, autoVars>>

(***************************************************************************)
(* Tab store: identifiers                                                  *)
(***************************************************************************)
Projects == {"p1", "p2"}

Files == {"f1", "f2", "f3"}

\* the file ids the calls on a project draw from (the second project, which
\* the cross-project properties need, is driven with two of the three ids)
FilesOf(projectId) == IF projectId = "p1" THEN Files ELSE {"f1", "f2"}

\* JavaScript null (activeTabId / previewTabId : Id<"files"> | null)
Null == "null"

\* Map.get(projectId) === undefined : the Map holds no entry for the project
NoEntry == [ref |-> "undefined"]

\* the Map entry is the defaultTabState object itself (stored by reference)
DefaultRef == [ref |-> "defaultTabState"]

TabState(open, active, preview) ==
    [openTabs |-> open, activeTabId |-> active, previewTabId |-> preview]

\* const defaultTabState = { openTabs: [], activeTabId: null, previewTabId: null }
DefaultTabStateValue == TabState(<<>>, Null, Null)

(***************************************************************************)
(* Array helpers, as the JavaScript built-ins compute them                 *)
(***************************************************************************)
\* Array.prototype.includes
Includes(arr, x) == \E i \in 1..Len(arr) : arr[i] = x

\* Array.prototype.indexOf, 0-based, -1 when absent
IndexOf(arr, x) ==
    IF Includes(arr, x)
    THEN (CHOOSE i \in 1..Len(arr) :
             arr[i] = x /\ \A j \in 1..(i - 1) : arr[j] # x) - 1
    ELSE -1

\* openTabs.map((id) => (id === previewTabId ? fileId : id))
MapReplace(arr, old, new) ==
    [i \in 1..Len(arr) |-> IF arr[i] = old THEN new ELSE arr[i]]

\* openTabs.filter((id) => id !== fileId)
Filter(arr, x) == SelectSeq(arr, LAMBDA id : id # x)

\* 0-based element access newTabs[i]
At(arr, i) == arr[i + 1]

(***************************************************************************)
(* Tab store: operations                                                   *)
(***************************************************************************)
\* the object a Map entry denotes
Deref(entry) == IF entry = DefaultRef THEN defaultTabState ELSE entry

\* tabs.get(projectId) ?? defaultTabState
Lookup(map, projectId) ==
    IF map[projectId] = NoEntry THEN defaultTabState ELSE Deref(map[projectId])

\* mutation of getTabState: no fallback to the default state
getTabState_NoDefault(projectId) == Deref(tabs[projectId])

\* getTabState(projectId)
getTabState(projectId) == Lookup(tabs, projectId)

\* no getTabState call was just made
NoRead == [projectId |-> Null, result |-> NoEntry]

\* a component calls getTabState(projectId): the value returned, no set()
GetTabState(projectId) ==
    /\ lastRead' = [projectId |-> projectId, result |-> getTabState(projectId)]
    /\ UNCHANGED <<tabs, defaultTabState, lastCall>>


\* mutation of OpenPreview: the new preview is appended at the end and the old
\* preview tab dropped, so the preview slot moves
OpenPreview_Append(tabState, fileId) ==
    TabState(Append(Filter(tabState.openTabs, tabState.previewTabId), fileId),
             fileId, fileId)

\* openFile, CASE 1: preview open of a file that is not open
OpenPreview(tabState, fileId) ==
    LET newTabs == IF tabState.previewTabId # Null
                   THEN MapReplace(tabState.openTabs, tabState.previewTabId, fileId)
                   ELSE Append(tabState.openTabs, fileId)
    IN  TabState(newTabs, fileId, fileId)

\* mutation of OpenPinned: the new pinned tab ends the preview
OpenPinned_ClearPreview(tabState, fileId) ==
    TabState(Append(tabState.openTabs, fileId), fileId, Null)

\* openFile, CASE 2: pinned open of a file that is not open
OpenPinned(tabState, fileId) ==
    [tabState EXCEPT !.openTabs = Append(tabState.openTabs, fileId),
                     !.activeTabId = fileId]


\* mutation of OpenExisting: any pinned open of an open file clears the preview
OpenExisting_AlwaysPin(tabState, fileId, pinned) ==
    [tabState EXCEPT !.activeTabId = fileId,
                     !.previewTabId = IF pinned THEN Null
                                      ELSE tabState.previewTabId]

\* mutation of OpenExisting: a pinned open of an open file flips its preview
\* status
OpenExisting_TogglePreview(tabState, fileId, pinned) ==
    [tabState EXCEPT !.activeTabId = fileId,
                     !.previewTabId =
                         IF ~pinned THEN tabState.previewTabId
                         ELSE IF tabState.previewTabId = fileId THEN Null
                         ELSE fileId]

\* openFile, CASE 3: the file is already open
OpenExisting(tabState, fileId, pinned) ==
    LET shouldPin == pinned /\ tabState.previewTabId = fileId
    IN  [tabState EXCEPT !.activeTabId = fileId,
                         !.previewTabId = IF shouldPin THEN Null
                                          ELSE tabState.previewTabId]


\* mutation of OpenFileResult: a pinned open appends without the isOpen test
OpenFileResult_NoOpenCheck(tabState, fileId, pinned) ==
    LET isOpen == Includes(tabState.openTabs, fileId)
    IN  IF pinned THEN OpenPinned(tabState, fileId)
        ELSE IF ~isOpen THEN OpenPreview(tabState, fileId)
        ELSE OpenExisting(tabState, fileId, pinned)

\* the TabState openFile stores for the project
OpenFileResult(tabState, fileId, pinned) ==
    LET isOpen == Includes(tabState.openTabs, fileId)
    IN  IF ~isOpen /\ ~pinned THEN OpenPreview(tabState, fileId)
        ELSE IF ~isOpen /\ pinned THEN OpenPinned(tabState, fileId)
        ELSE OpenExisting(tabState, fileId, pinned)


\* mutation of NewActiveTabId: the left neighbour is preferred
NewActiveTabId_Left(newTabs, tabIndex) ==
    IF Len(newTabs) = 0 THEN Null
    ELSE IF tabIndex = 0 THEN At(newTabs, 0)
    ELSE At(newTabs, tabIndex - 1)

\* mutation of NewActiveTabId: no successor is chosen
NewActiveTabId_None(newTabs, tabIndex) == Null

\* closeTab: the successor of a closed active tab
NewActiveTabId(newTabs, tabIndex) ==
    IF Len(newTabs) = 0 THEN Null
    ELSE IF tabIndex >= Len(newTabs) THEN At(newTabs, Len(newTabs) - 1)
    ELSE At(newTabs, tabIndex)


\* mutation of CloseTabResult: previewTabId is not cleared
CloseTabResult_KeepPreview(tabState, fileId) ==
    LET tabIndex == IndexOf(tabState.openTabs, fileId)
        newTabs  == Filter(tabState.openTabs, fileId)
    IN  TabState(newTabs,
                 IF tabState.activeTabId = fileId
                 THEN NewActiveTabId(newTabs, tabIndex)
                 ELSE tabState.activeTabId,
                 tabState.previewTabId)

\* mutation of CloseTabResult: activeTabId is not reassigned
CloseTabResult_KeepActive(tabState, fileId) ==
    TabState(Filter(tabState.openTabs, fileId),
             tabState.activeTabId,
             IF tabState.previewTabId = fileId THEN Null
             ELSE tabState.previewTabId)

\* mutation of CloseTabResult: the successor rule is applied whichever tab
\* is closed
CloseTabResult_AlwaysReassign(tabState, fileId) ==
    LET tabIndex == IndexOf(tabState.openTabs, fileId)
        newTabs  == Filter(tabState.openTabs, fileId)
    IN  TabState(newTabs,
                 NewActiveTabId(newTabs, tabIndex),
                 IF tabState.previewTabId = fileId THEN Null
                 ELSE tabState.previewTabId)

\* the TabState closeTab stores for the project (tabIndex # -1)
CloseTabResult(tabState, fileId) ==
    LET tabIndex == IndexOf(tabState.openTabs, fileId)
        newTabs  == Filter(tabState.openTabs, fileId)
    IN  TabState(newTabs,
                 IF tabState.activeTabId = fileId
                 THEN NewActiveTabId(newTabs, tabIndex)
                 ELSE tabState.activeTabId,
                 IF tabState.previewTabId = fileId THEN Null
                 ELSE tabState.previewTabId)

\* the Map after tabs.set(projectId, entry) on a copy
MapSet(map, projectId, entry) == [map EXCEPT ![projectId] = entry]

Call(op, projectId, fileId, pinned) ==
    [op |-> op, projectId |-> projectId, fileId |-> fileId, pinned |-> pinned,
     before |-> Lookup(tabs, projectId), entryBefore |-> tabs[projectId]]

openFile(projectId, fileId, pinned) ==
    /\ tabs' = MapSet(tabs, projectId,
                      OpenFileResult(Lookup(tabs, projectId), fileId, pinned))
    /\ lastCall' = Call("openFile", projectId, fileId, pinned)
    /\ UNCHANGED defaultTabState

\* mutation of closeTab: no early return when the file is not open
closeTab_NoEarlyReturn(projectId, fileId) ==
    /\ tabs' = MapSet(tabs, projectId,
                      CloseTabResult(Lookup(tabs, projectId), fileId))
    /\ lastCall' = Call("closeTab", projectId, fileId, FALSE)
    /\ UNCHANGED defaultTabState

closeTab(projectId, fileId) ==
    /\ tabs' = IF IndexOf(Lookup(tabs, projectId).openTabs, fileId) = -1
               THEN tabs
               ELSE MapSet(tabs, projectId,
                           CloseTabResult(Lookup(tabs, projectId), fileId))
    /\ lastCall' = Call("closeTab", projectId, fileId, FALSE)
    /\ UNCHANGED defaultTabState


\* mutation of closeAllTabs: the whole Map is replaced by an empty one
closeAllTabs_ClearMap(projectId) ==
    /\ tabs' = [p \in Projects |-> NoEntry]
    /\ lastCall' = Call("closeAllTabs", projectId, Null, FALSE)
    /\ UNCHANGED defaultTabState

\* mutation of closeAllTabs: the tabs are emptied but activeTabId survives
closeAllTabs_KeepActive(projectId) ==
    /\ tabs' = MapSet(tabs, projectId,
                      TabState(<<>>, Lookup(tabs, projectId).activeTabId, Null))
    /\ lastCall' = Call("closeAllTabs", projectId, Null, FALSE)
    /\ UNCHANGED defaultTabState

closeAllTabs(projectId) ==
    /\ tabs' = MapSet(tabs, projectId, DefaultRef)
    /\ lastCall' = Call("closeAllTabs", projectId, Null, FALSE)
    /\ UNCHANGED defaultTabState

\* mutation of SetActiveResult: activating a tab pins it
SetActiveResult_Pin(tabState, fileId) ==
    TabState(tabState.openTabs, fileId,
             IF tabState.previewTabId = fileId THEN Null
             ELSE tabState.previewTabId)

\* setActiveTab accepts any file id (no membership validation)
SetActiveResult(tabState, fileId) == [tabState EXCEPT !.activeTabId = fileId]

setActiveTab(projectId, fileId) ==
    /\ tabs' = MapSet(tabs, projectId,
                      SetActiveResult(Lookup(tabs, projectId), fileId))
    /\ lastCall' = Call("setActiveTab", projectId, fileId, FALSE)
    /\ UNCHANGED defaultTabState

(***************************************************************************)
(* Inline suggestion extension: values                                     *)
(***************************************************************************)
Views == {"v1", "v2"}

\* the characters a document is typed from; " " is whitespace for trim()
Chars == {"a", " "}

Whitespace == {" "}

\* the non-empty text the completion endpoint returns in this model
SuggestedText == <<"b">>

\* longest document the model types
MaxDocLen == 2

\* longest document the model reaches: a typed one with a suggestion accepted
MaxTextLen == MaxDocLen + Len(SuggestedText)

\* number of triggerSuggestion calls the model follows
MaxEvents == 4

\* granularity of the clock, in ms
TickMs == 100

\* const DEBOUNCE_DELAY = 300
DEBOUNCE_DELAY == 300

\* string | null : null
NoSuggestion == [present |-> FALSE, text |-> <<>>]

\* string | null : a string
Text(t) == [present |-> TRUE, text |-> t]

\* JavaScript truthiness of a string | null
Truthy(sug) == sug.present /\ Len(sug.text) > 0

\* mutation of IsBlank: only the empty document counts as blank
IsBlank_EmptyOnly(code) == Len(code) = 0

\* !code || code.trim().length === 0
IsBlank(code) == \A i \in 1..Len(code) : code[i] \in Whitespace

\* generatePayload: null for a blank document, else the request payload
generatePayload(code, cursorPosition) ==
    IF IsBlank(code)
    THEN [ok |-> FALSE, code |-> <<>>, cursorPosition |-> 0]
    ELSE [ok |-> TRUE, code |-> code, cursorPosition |-> cursorPosition]

\* changes: { from, insert } applied to a document
InsertAt(code, from, text) ==
    SubSeq(code, 1, from) \o text \o SubSeq(code, from + 1, Len(code))

\* changes: { from, to } with no insert
DeleteRange(code, from, to) ==
    SubSeq(code, 1, from) \o SubSeq(code, to + 1, Len(code))

NoRequest == [state |-> "none", aborted |-> FALSE, view |-> "v1"]

\* the awaited fetcher call throws instead of returning
Rejected == [present |-> FALSE, text |-> <<"rejected">>]

\* what await fetcher(payload, signal) can produce: a response text (possibly
\* empty) or null for "no result"; once the signal is aborted, no result
\* (null) or an exception
FetcherOutcomes(aborted) ==
    IF aborted
    THEN {NoSuggestion, Rejected}
    ELSE {NoSuggestion, Text(<<>>), Text(SuggestedText)}

AllOutcomes == FetcherOutcomes(TRUE) \cup FetcherOutcomes(FALSE)

(***************************************************************************)
(* Inline suggestion extension: operations                                 *)
(***************************************************************************)
\* Decoration.none
DecorationNone == {}

\* Decoration.widget({ widget: new SuggestionWidget(text) }).range(pos)
Widget(pos, text) == [pos |-> pos, text |-> text]

\* mutation of build: the waiting flag is not consulted
build_IgnoreWaiting(view) ==
    IF ~Truthy(suggestion[view]) THEN DecorationNone
    ELSE {Widget(cursor[view], suggestion[view].text)}

\* renderPlugin.build(view)
build(view) ==
    IF isWaitingForSuggestion THEN DecorationNone
    ELSE IF ~Truthy(suggestion[view]) THEN DecorationNone
    ELSE {Widget(cursor[view], suggestion[view].text)}

\* renderPlugin.update(update) on a transaction with docChanged, selectionSet
\* or a setSuggestionEffect: the decorations are rebuilt from the new state
\* (the debounce plugin, registered first, has already run its update); a
\* destroyed view takes the new state and runs no plugin
Rebuild(view) ==
    decorations' = [decorations EXCEPT ![view] =
                       IF view \in mounted THEN build(view)'
                       ELSE decorations[view]]

\* mutation of acceptSuggestionRun: the text is inserted at the end of the
\* document
acceptSuggestionRun_Append(code, head, sug) ==
    IF ~Truthy(sug)
    THEN [handled |-> FALSE, doc |-> code, cursor |-> head, suggestion |-> sug]
    ELSE [handled |-> TRUE, doc |-> code \o sug.text,
          cursor |-> head + Len(sug.text), suggestion |-> NoSuggestion]

\* mutation of acceptSuggestionRun: only null counts as "no suggestion"
acceptSuggestionRun_EmptyCounts(code, head, sug) ==
    IF ~sug.present
    THEN [handled |-> FALSE, doc |-> code, cursor |-> head, suggestion |-> sug]
    ELSE [handled |-> TRUE, doc |-> InsertAt(code, head, sug.text),
          cursor |-> head + Len(sug.text), suggestion |-> NoSuggestion]

\* acceptSuggestionKeymap, run(view): the return value and the transaction it
\* dispatches ({ changes: {from: cursor, insert}, selection, effects })
acceptSuggestionRun(code, head, sug) ==
    IF ~Truthy(sug)
    THEN [handled |-> FALSE, doc |-> code, cursor |-> head, suggestion |-> sug]
    ELSE [handled |-> TRUE, doc |-> InsertAt(code, head, sug.text),
          cursor |-> head + Len(sug.text), suggestion |-> NoSuggestion]

\* mutation of ClearTimeout: the pending timer is left running
ClearTimeout_Noop(pending, id) == pending

\* clearTimeout(id)
ClearTimeout(pending, id) == {t \in pending : t.id # id}

\* mutation of Abort: the controller is left alone
Abort_Noop(reqs, id) == reqs

\* controller.abort(): the signal of that request is aborted
Abort(reqs, id) ==
    [r \in DOMAIN reqs |->
        IF r = id /\ reqs[r].state # "none"
        THEN [reqs[r] EXCEPT !.aborted = TRUE] ELSE reqs[r]]

Step(kind, id, aborted) == [kind |-> kind, id |-> id, aborted |-> aborted]

\* no callback of the last event has run to its end yet
NoResult == [set |-> FALSE, outcome |-> NoSuggestion]

Result(outcome) == [set |-> TRUE, outcome |-> outcome]

\* triggerSuggestion(view): steps 1-4, up to window.setTimeout
triggerSuggestion(view) ==
    /\ evCount < MaxEvents
    /\ timers' = ClearTimeout(timers, debounceTimer)
                    \cup {[id |-> evCount + 1, view |-> view,
                           remaining |-> DEBOUNCE_DELAY]}
    /\ requests' = Abort(requests, currentAbortController)
    /\ isWaitingForSuggestion' = TRUE
    /\ debounceTimer' = evCount + 1
    /\ evCount' = evCount + 1
    /\ burstStart' = IF timers = {} THEN evCount + 1 ELSE burstStart
    /\ superseded' = superseded \cup {t.id : t \in timers}
    /\ lastResult' = NoResult
    /\ UNCHANGED <<currentAbortController, firedEvs, blankFired>>

\* a typed character: a transaction with docChanged, then update()
InsertChar(view, c) ==
    /\ view \in mounted
    /\ Len(doc[view]) < MaxDocLen
    /\ doc' = [doc EXCEPT ![view] = InsertAt(doc[view], cursor[view], <<c>>)]
    /\ cursor' = [cursor EXCEPT ![view] = cursor[view] + 1]
    /\ triggerSuggestion(view)
    /\ lastStep' = Step("input", evCount + 1, FALSE)
    /\ UNCHANGED <<mounted, suggestion>>
    /\ Rebuild(view)

\* Backspace: a transaction with docChanged, then update()
DeleteBackward(view) ==
    /\ view \in mounted
    /\ cursor[view] > 0
    /\ doc' = [doc EXCEPT ![view] =
                  DeleteRange(doc[view], cursor[view] - 1, cursor[view])]
    /\ cursor' = [cursor EXCEPT ![view] = cursor[view] - 1]
    /\ triggerSuggestion(view)
    /\ lastStep' = Step("input", evCount + 1, FALSE)
    /\ UNCHANGED <<mounted, suggestion>>
    /\ Rebuild(view)

\* a click or arrow key: a transaction with selectionSet, then update()
MoveCursor(view, pos) ==
    /\ view \in mounted
    /\ pos \in 0..Len(doc[view])
    /\ pos # cursor[view]
    /\ cursor' = [cursor EXCEPT ![view] = pos]
    /\ triggerSuggestion(view)
    /\ lastStep' = Step("input", evCount + 1, FALSE)
    /\ UNCHANGED <<mounted, doc, suggestion>>
    /\ Rebuild(view)

\* the Tab key reaching acceptSuggestionKeymap: with a suggestion in state,
\* one transaction (changes, selection, effects) and the plugins' update();
\* without one, the handler returns false and dispatches nothing
AcceptSuggestion(view) ==
    LET r == acceptSuggestionRun(doc[view], cursor[view], suggestion[view])
    IN  /\ view \in mounted
        /\ Len(doc[view]) <= MaxDocLen
        /\ doc' = [doc EXCEPT ![view] = r.doc]
        /\ cursor' = [cursor EXCEPT ![view] = r.cursor]
        /\ suggestion' = [suggestion EXCEPT ![view] = r.suggestion]
        /\ IF r.handled
           THEN /\ triggerSuggestion(view)
                /\ lastStep' = Step("accept", evCount + 1, FALSE)
                /\ Rebuild(view)
           ELSE /\ lastStep' = Step("unhandled", 0, FALSE)
                /\ UNCHANGED <<decorations, debounceTimer,
                               isWaitingForSuggestion, currentAbortController,
                               timers, requests, evCount, burstStart,
                               superseded, firedEvs, blankFired,
                               lastResult>>
        /\ UNCHANGED mounted

\* new EditorView with the suggestion extension: the debounce plugin's
\* constructor calls triggerSuggestion(view), the render plugin's builds the
\* decorations.  A name is used again only when no callback refers to it.
Mount(view, initialValue) ==
    /\ view \notin mounted
    /\ \A t \in timers : t.view # view
    /\ \A r \in DOMAIN requests :
          requests[r].state = "inflight" => requests[r].view # view
    /\ mounted' = mounted \cup {view}
    /\ doc' = [doc EXCEPT ![view] = initialValue]
    /\ cursor' = [cursor EXCEPT ![view] = 0]
    /\ suggestion' = [suggestion EXCEPT ![view] = NoSuggestion]
    /\ triggerSuggestion(view)
    /\ lastStep' = Step("mount", evCount + 1, FALSE)
    /\ decorations' = [decorations EXCEPT ![view] = build(view)']

\* view.destroy(): the debounce plugin's destroy() clears the timer and
\* aborts the controller the module-level variables name; the document and
\* selection of the view are gone with it
Destroy(view) ==
    /\ view \in mounted
    /\ mounted' = mounted \ {view}
    /\ doc' = [doc EXCEPT ![view] = <<>>]
    /\ cursor' = [cursor EXCEPT ![view] = 0]
    /\ suggestion' = [suggestion EXCEPT ![view] = NoSuggestion]
    /\ timers' = ClearTimeout(timers, debounceTimer)
    /\ requests' = Abort(requests, currentAbortController)
    /\ decorations' = [decorations EXCEPT ![view] = DecorationNone]
    /\ lastStep' = Step("destroy", 0, FALSE)
    /\ UNCHANGED <<debounceTimer,
                   isWaitingForSuggestion, currentAbortController, evCount,
                   burstStart, superseded, firedEvs, blankFired, lastResult>>

\* the setTimeout callback, up to the await
TimerFires(t) ==
    /\ t \in timers
    /\ t.remaining = 0
    /\ timers' = timers \ {t}
    /\ firedEvs' = firedEvs \cup {t.id}
    /\ IF ~generatePayload(doc[t.view], cursor[t.view]).ok
       THEN /\ isWaitingForSuggestion' = FALSE
            /\ suggestion' = [suggestion EXCEPT ![t.view] = NoSuggestion]
            /\ blankFired' = blankFired \cup {t.id}
            /\ lastResult' = IF t.id = evCount THEN Result(NoSuggestion)
                              ELSE lastResult
            /\ UNCHANGED <<currentAbortController, requests>>
       ELSE /\ currentAbortController' = t.id
            /\ requests' = [requests EXCEPT ![t.id] =
                   [state |-> "inflight", aborted |-> FALSE, view |-> t.view]]
            /\ UNCHANGED <<isWaitingForSuggestion, suggestion, blankFired,
                           lastResult>>
    /\ lastStep' = Step("timer", t.id, FALSE)
    /\ UNCHANGED <<mounted, doc, cursor, debounceTimer, evCount, burstStart,
                   superseded>>
    /\ IF ~generatePayload(doc[t.view], cursor[t.view]).ok
       THEN Rebuild(t.view)
       ELSE UNCHANGED decorations

\* the rest of the callback, after await fetcher(...)
FetchSettles(id, outcome) ==
    /\ requests[id].state = "inflight"
    /\ outcome \in FetcherOutcomes(requests[id].aborted)
    /\ requests' = [requests EXCEPT ![id].state = "settled"]
    /\ IF outcome = Rejected
       THEN UNCHANGED <<isWaitingForSuggestion, suggestion>>
       ELSE /\ isWaitingForSuggestion' = FALSE
            /\ suggestion' = [suggestion EXCEPT ![requests[id].view] = outcome]
    /\ lastStep' = Step(IF outcome = Rejected THEN "reject" ELSE "resolve",
                        id, requests[id].aborted)
    /\ lastResult' = IF id = evCount /\ outcome # Rejected
                      THEN Result(outcome) ELSE lastResult
    /\ UNCHANGED <<mounted, doc, cursor, debounceTimer, currentAbortController,
                   timers, evCount, burstStart, superseded, firedEvs,
                   blankFired>>
    /\ IF outcome = Rejected
       THEN UNCHANGED decorations
       ELSE Rebuild(requests[id].view)

\* time passes
Tick ==
    /\ \E t \in timers : t.remaining > 0
    /\ timers' = {[t EXCEPT !.remaining =
                      IF t.remaining > TickMs THEN t.remaining - TickMs ELSE 0]
                  : t \in timers}
    /\ lastStep' = Step("tick", 0, FALSE)
    /\ UNCHANGED <<mounted, doc, cursor, suggestion, decorations,
                   debounceTimer, isWaitingForSuggestion,
                   currentAbortController, requests, evCount, burstStart,
                   superseded, firedEvs, blankFired, lastResult>>

(***************************************************************************)
(* Quick-edit extension: values                                            *)
(***************************************************************************)
\* the document the editor is created with
QeInitialDoc == <<"x", "y", "z">>

\* the character the user types
TypedChar == "t"

\* the non-empty text the quick-edit endpoint returns in this model
EditedCode == <<"e", "f">>

\* longest document the user types up to
MaxQeDocLen == 3

\* number of characters the user types
MaxQeTyped == 1

\* number of quick-edit submissions the model follows
MaxQeRequests == 2

\* SelectionRange: from <= to, empty when from = to
Range(from, to) == [from |-> from, to |-> to]

IsEmpty(sel) == sel.from = sel.to

\* the selections the user makes: a click at the start of the document and
\* two overlapping ranges inside it
Selections == {Range(0, 0), Range(1, 2), Range(1, 3)}

\* doc.sliceString(from, to)
SliceString(code, from, to) == SubSeq(code, from + 1, to)

\* mutation of ReplaceRange: the text is inserted at from and the range kept
ReplaceRange_KeepRange(code, from, to, text) ==
    SubSeq(code, 1, from) \o text \o SubSeq(code, from + 1, Len(code))

\* changes: { from, to, insert } applied to a document
ReplaceRange(code, from, to, text) ==
    SubSeq(code, 1, from) \o text \o SubSeq(code, to + 1, Len(code))

\* no tooltip is shown
NoDom == [present |-> FALSE, owner |-> 0, disabled |-> FALSE]

\* the DOM a tooltip's create() returns: an enabled submit button; owner is
\* the request submitted from this form, 0 if none yet
FreshDom == [present |-> TRUE, owner |-> 0, disabled |-> FALSE]

NoQeRequest ==
    [state |-> "none", aborted |-> FALSE, from |-> 0, to |-> 0,
     selectedCode |-> <<>>, edited |-> FALSE]

\* what await fetcher(payload, signal) can produce: the edited code (possibly
\* empty) or null on failure; once the signal is aborted, null or an exception
QeFetcherOutcomes(aborted) ==
    IF aborted
    THEN {NoSuggestion, Rejected}
    ELSE {NoSuggestion, Text(<<>>), Text(EditedCode)}

QeAllOutcomes == QeFetcherOutcomes(TRUE) \cup QeFetcherOutcomes(FALSE)

QeStep(kind, id, outcome) ==
    [kind |-> kind, id |-> id, outcome |-> outcome,
     wasActive |-> quickEditState]

\* a request whose promise has settled
Settled(req) == [NoQeRequest EXCEPT !.state = "settled"]

(***************************************************************************)
(* Quick-edit extension: operations                                        *)
(***************************************************************************)
\* mutation of quickEditStateUpdate: a collapsed selection is not looked at
quickEditStateUpdate_NoCollapse(value, effect, selectionSet, selEmpty) ==
    IF effect # "none" THEN effect = "show" ELSE value

\* quickEditState.update(value, transaction); effect is the transaction's
\* showQuickEditEffect: "show" for of(true), "hide" for of(false), or "none"
quickEditStateUpdate(value, effect, selectionSet, selEmpty) ==
    IF effect # "none" THEN effect = "show"
    ELSE IF selectionSet /\ selEmpty THEN FALSE
    ELSE value

\* mutation of createQuickEditTooltip: the session flag is not consulted
createQuickEditTooltip_IgnoreActive(sel, active) ==
    IF IsEmpty(sel) THEN {} ELSE {[pos |-> sel.to]}

\* createQuickEditTooltip(state)
createQuickEditTooltip(sel, active) ==
    IF IsEmpty(sel) THEN {}
    ELSE IF ~active THEN {}
    ELSE {[pos |-> sel.to]}

\* a doc-changing transaction: the offsets captured by the requests in
\* flight now refer to an edited document
MarkEdited(reqs, docChanged) ==
    [r \in DOMAIN reqs |->
        IF docChanged /\ reqs[r].state = "inflight"
        THEN [reqs[r] EXCEPT !.edited = TRUE] ELSE reqs[r]]

\* view.dispatch(transaction) as the quick-edit extension sees it: the
\* quickEditState field, the tooltip field (recomputed on docChanged,
\* selection or a showQuickEditEffect; a recomputed tooltip carries a
\* new create() and so gets a new DOM) and the update listener that
\* captures the view
Dispatch(newDoc, newSel, selectionSet, effect) ==
    LET docChanged == newDoc # qeDoc
        active == quickEditStateUpdate(quickEditState, effect, selectionSet,
                                       IsEmpty(newSel))
        recompute == docChanged \/ selectionSet \/ effect # "none"
        tips == IF recompute THEN createQuickEditTooltip(newSel, active)
                ELSE quickEditTooltips
    IN  /\ qeDoc' = newDoc
        /\ qeSelection' = newSel
        /\ quickEditState' = active
        /\ quickEditTooltips' = tips
        /\ tooltipDom' = IF ~recompute THEN tooltipDom
                         ELSE IF tips = {} THEN NoDom ELSE FreshDom
        /\ editorView' = "v1"

\* the user selects a range or clicks: a transaction with a selection
SetSelection(from, to) ==
    /\ from <= to
    /\ to <= Len(qeDoc)
    /\ Range(from, to) # qeSelection
    /\ Dispatch(qeDoc, Range(from, to), TRUE, "none")
    /\ qeLast' = QeStep("select", 0, NoSuggestion)
    /\ UNCHANGED <<qeAbortController, qeRequests, qeTyped>>

\* the user types a character: the selection is replaced by it and the
\* cursor put behind it (changes and selection in one transaction)
TypeChar(c) ==
    /\ qeTyped < MaxQeTyped
    /\ qeTyped' = qeTyped + 1
    /\ Len(qeDoc) - (qeSelection.to - qeSelection.from) < MaxQeDocLen
    /\ Dispatch(ReplaceRange(qeDoc, qeSelection.from, qeSelection.to, <<c>>),
                Range(qeSelection.from + 1, qeSelection.from + 1), TRUE, "none")
    /\ qeRequests' = MarkEdited(qeRequests, TRUE)
    /\ qeLast' = QeStep("type", 0, NoSuggestion)
    /\ UNCHANGED qeAbortController

\* mutation of quickEditRun: the selection is not tested
quickEditRun_NoEmptyTest(sel) == TRUE

\* quickEditKeymap, run(view): the return value (true after dispatching
\* showQuickEditEffect.of(true))
quickEditRun(sel) == ~IsEmpty(sel)

\* Mod-k reaching quickEditKeymap
ModK ==
    /\ IF quickEditRun(qeSelection)
       THEN /\ Dispatch(qeDoc, qeSelection, FALSE, "show")
            /\ qeLast' = QeStep("modk", 0, NoSuggestion)
       ELSE /\ qeLast' = QeStep("modk-unhandled", 0, NoSuggestion)
            /\ UNCHANGED <<qeDoc, qeSelection, quickEditState,
                           quickEditTooltips, tooltipDom, editorView>>
    /\ UNCHANGED <<qeAbortController, qeRequests, qeTyped>>

\* controller.abort() on the quick-edit controller
QeAbort(reqs, id) ==
    [r \in DOMAIN reqs |->
        IF r = id /\ reqs[r].state # "none"
        THEN [reqs[r] EXCEPT !.aborted = TRUE] ELSE reqs[r]]

\* cancelButton.onclick
CancelClick ==
    /\ tooltipDom.present
    /\ qeRequests' = QeAbort(qeRequests, qeAbortController)
    /\ qeAbortController' = 0
    /\ IF editorView # Null
       THEN Dispatch(qeDoc, qeSelection, FALSE, "hide")
       ELSE UNCHANGED <<qeDoc, qeSelection, quickEditState, quickEditTooltips,
                        tooltipDom, editorView>>
    /\ qeLast' = QeStep("cancel", 0, NoSuggestion)
    /\ UNCHANGED qeTyped

\* form.onsubmit up to the await; the form is submitted through its enabled
\* submit button
Submit(hasInstruction) ==
    /\ tooltipDom.present
    /\ ~tooltipDom.disabled
    /\ IF editorView = Null \/ ~hasInstruction
       THEN /\ qeLast' = QeStep("submit-ignored", 0, NoSuggestion)
            /\ UNCHANGED <<tooltipDom, qeAbortController, qeRequests>>
       ELSE \E id \in DOMAIN qeRequests :
               /\ qeRequests[id].state = "none"
               /\ \A r \in 1..(id - 1) : qeRequests[r].state # "none"
               /\ tooltipDom' = [tooltipDom EXCEPT !.owner = id,
                                                   !.disabled = TRUE]
               /\ qeAbortController' = id
               /\ qeRequests' = [qeRequests EXCEPT ![id] =
                      [state |-> "inflight", aborted |-> FALSE,
                       from |-> qeSelection.from, to |-> qeSelection.to,
                       selectedCode |-> SliceString(qeDoc, qeSelection.from,
                                                    qeSelection.to),
                       edited |-> FALSE]]
               /\ qeLast' = QeStep("submit", id, NoSuggestion)
    /\ UNCHANGED <<qeDoc, qeSelection, quickEditState, quickEditTooltips,
                   editorView, qeTyped>>

\* mutation of Reenable: the submit button is left disabled
Reenable_Noop(dom, id) == dom

\* submitButton.disabled = false, on the button of the form the request was
\* submitted from (which is the tooltip shown only if that DOM still is)
Reenable(dom, id) ==
    IF dom.present /\ dom.owner = id
    THEN [dom EXCEPT !.disabled = FALSE] ELSE dom

\* form.onsubmit after await fetcher(...)
QeFetchSettles(id, outcome) ==
    LET req == qeRequests[id]
    IN  /\ req.state = "inflight"
        /\ outcome \in QeFetcherOutcomes(req.aborted)
        /\ UNCHANGED qeTyped
        /\ IF outcome = Rejected
           THEN /\ qeLast' = QeStep("reject", id, outcome)
                /\ qeRequests' = [qeRequests EXCEPT ![id] = Settled(req)]
                /\ UNCHANGED <<qeDoc, qeSelection, quickEditState,
                               quickEditTooltips, tooltipDom, editorView,
                               qeAbortController>>
           ELSE IF Truthy(outcome) /\ req.to > Len(qeDoc)
           THEN \* dispatch throws a RangeError: the change is out of range
                /\ qeLast' = QeStep("apply-throws", id, outcome)
                /\ qeRequests' = [qeRequests EXCEPT ![id] = Settled(req)]
                /\ UNCHANGED <<qeDoc, qeSelection, quickEditState,
                               quickEditTooltips, tooltipDom, editorView,
                               qeAbortController>>
           ELSE IF Truthy(outcome)
           THEN /\ Dispatch(ReplaceRange(qeDoc, req.from, req.to, outcome.text),
                            Range(req.from + Len(outcome.text),
                                  req.from + Len(outcome.text)),
                            TRUE, "hide")
                /\ qeRequests' = [MarkEdited(qeRequests, TRUE)
                                     EXCEPT ![id] = Settled(req)]
                /\ qeAbortController' = 0
                /\ qeLast' = QeStep("resolve", id, outcome)
           ELSE /\ tooltipDom' = Reenable(tooltipDom, id)
                /\ qeRequests' = [qeRequests EXCEPT ![id] = Settled(req)]
                /\ qeAbortController' = 0
                /\ qeLast' = QeStep("resolve", id, outcome)
                /\ UNCHANGED <<qeDoc, qeSelection, quickEditState,
                               quickEditTooltips, editorView>>

(***************************************************************************)
(* File store (convex): the "files" table of one project and the           *)
(* mutations that create and rename entries.  A convex mutation is one     *)
(* transaction: a handler that throws leaves the database as it was.       *)
(***************************************************************************)
MaxFiles == 2       \* entries inserted at most
MaxMutations == 3   \* successful mutations at most (values of Date.now())

FileProject == "p1"
ProjectOwner == "owner"
Users == {"owner", "other"}
FileNames == {"main", "lib"}
FileContent == "c"
InternalKey == "key"
Keys == {"key", "bad"}

\* parentId: v.optional(v.id("files")): undefined is the project root
NoParent == 0
\* a folder has no content field
NoContent == "none"

FileIds == 1..MaxFiles

\* withIndex("by_project_parent", q => q.eq("projectId", p).eq("parentId", q))
byProjectParent(table, projectId, parentId) ==
    {f \in table : f.projectId = projectId /\ f.parentId = parentId}

\* ctx.db.get("files", id)
dbGet(table, id) == {f \in table : f._id = id}

FsResult(op, caller, id, name, parentId, result) ==
    [op |-> op, caller |-> caller, id |-> id, name |-> name,
     parentId |-> parentId, result |-> result]

\* a handler that throws: the transaction changes nothing
Throw(res) ==
    /\ lastFs' = res
    /\ UNCHANGED <<files, nextFileId, fsNow, projectUpdatedAt, storage>>

\* ctx.db.insert("files", doc) followed by the patch of the project
Insert(entry, res) ==
    /\ nextFileId <= MaxFiles
    /\ fsNow < MaxMutations
    /\ files' = files \cup {entry}
    /\ nextFileId' = nextFileId + 1
    /\ projectUpdatedAt' = fsNow
    /\ fsNow' = fsNow + 1
    /\ lastFs' = res
    /\ UNCHANGED storage

existingFile_None(siblings, name) == FALSE

\* createFile: files.find(file => file.name === args.name && file.type === "file")
existingFile(siblings, name) ==
    \E file \in siblings : file.name = name /\ file.type = "file"

\* createFolder: files.find(file => file.name === args.name && file.type === "folder")
existingFolder(siblings, name) ==
    \E file \in siblings : file.name = name /\ file.type = "folder"

createFile(caller, projectId, parentId, name, content) ==
    LET res(r) == FsResult("createFile", caller, 0, name, parentId, r)
        siblings == byProjectParent(files, projectId, parentId)
    IN  IF ProjectOwner # caller
        THEN Throw(res("FORBIDDEN"))
        ELSE IF existingFile(siblings, name)
        THEN Throw(res("CONFLICT"))
        ELSE Insert([_id |-> nextFileId, projectId |-> projectId,
                     parentId |-> parentId, name |-> name,
                     content |-> content, type |-> "file",
                     updatedAt |-> fsNow],
                    res("ok"))

createFolder(caller, projectId, parentId, name) ==
    LET res(r) == FsResult("createFolder", caller, 0, name, parentId, r)
        siblings == byProjectParent(files, projectId, parentId)
    IN  IF ProjectOwner # caller
        THEN Throw(res("FORBIDDEN"))
        ELSE IF existingFolder(siblings, name)
        THEN Throw(res("CONFLICT"))
        ELSE Insert([_id |-> nextFileId, projectId |-> projectId,
                     parentId |-> parentId, name |-> name,
                     content |-> NoContent, type |-> "folder",
                     updatedAt |-> fsNow],
                    res("ok"))

\* ctx.db.patch(id, {name, updatedAt}), then the patch of the project if any
Rename(file, newName, patchProject, res) ==
    /\ fsNow < MaxMutations
    /\ files' = (files \ {file})
                  \cup {[file EXCEPT !.name = newName, !.updatedAt = fsNow]}
    /\ projectUpdatedAt' = IF patchProject THEN fsNow ELSE projectUpdatedAt
    /\ fsNow' = fsNow + 1
    /\ lastFs' = res
    /\ UNCHANGED <<nextFileId, storage>>

\* renameFile: siblings.find(file => file.name === args.newName &&
\*     file.type === file.type && file._id !== args.id); the parameter of the
\* arrow function shadows the entry being renamed
renameConflict(siblings, file, id, newName) ==
    \E sibling \in siblings :
        /\ sibling.name = newName
        /\ sibling.type = sibling.type
        /\ sibling._id # id

renameFile(caller, id, newName) ==
    LET res(r) == FsResult("renameFile", caller, id, newName, NoParent, r)
    IN  IF dbGet(files, id) = {}
           THEN Throw(res("NOT_FOUND"))
           ELSE LET file == CHOOSE f \in dbGet(files, id) : TRUE
                    siblings == byProjectParent(files, file.projectId,
                                                file.parentId)
                IN  IF ProjectOwner # caller
                    THEN Throw(res("FORBIDDEN"))
                    ELSE IF renameConflict(siblings, file, id, newName)
                    THEN Throw(res("CONFLICT"))
                    ELSE Rename(file, newName, TRUE, res("ok"))

\* system renameFile: siblingFiles.find(sibling => sibling.name === args.newName
\*     && sibling.type === file.type && sibling._id !== args.fileId)
systemRenameConflict(siblingFiles, file, fileId, newName) ==
    \E sibling \in siblingFiles :
        /\ sibling.name = newName
        /\ sibling.type = file.type
        /\ sibling._id # fileId

systemRenameFile(internalKey, fileId, newName) ==
    LET res(r) == FsResult("systemRenameFile", internalKey, fileId, newName,
                           NoParent, r)
    IN  IF InternalKey # internalKey
           THEN Throw(res("INTERNAL"))
           ELSE IF dbGet(files, fileId) = {}
           THEN Throw(res("NOT_FOUND"))
           ELSE LET file == CHOOSE f \in dbGet(files, fileId) : TRUE
                    siblingFiles == byProjectParent(files, file.projectId,
                                                    file.parentId)
                IN  IF systemRenameConflict(siblingFiles, file, fileId, newName)
                    THEN Throw(res("ALREADY_EXISTS"))
                    ELSE Rename(file, newName, FALSE, res("ok"))

MaxBatch == 2   \* entries of one createFiles batch at most

\* a result of createFiles without the error field
NoError == "none"

\* the batches a caller can send: the names of args.files, in order
Batches == UNION {[1..n -> FileNames] : n \in 0..MaxBatch}

\* existingFiles.find(f => f.name === file.name && f.type === "file"): the
\* index returns the documents in the order of their creation
findExistingFile(existingFiles, name) ==
    LET hits == {f \in existingFiles : f.name = name /\ f.type = "file"}
    IN  IF hits = {} THEN {}
        ELSE {CHOOSE f \in hits : \A g \in hits : f._id <= g._id}

\* for (const file of args.files) { ... } from entry i on; acc is the table,
\* the next _id and the results so far. existingFiles was collected once,
\* before the loop
RECURSIVE createFilesLoop(_, _, _, _, _, _)
createFilesLoop(existingFiles, projectId, parentId, batch, i, acc) ==
    IF i > Len(batch)
    THEN acc
    ELSE LET name == batch[i]
             found == findExistingFile(existingFiles, name)
         IN  IF found # {}
             THEN createFilesLoop(existingFiles, projectId, parentId, batch,
                      i + 1,
                      [acc EXCEPT !.results = Append(@,
                          [name |-> name,
                           fileId |-> (CHOOSE f \in found : TRUE)._id,
                           error |-> "File already exists"])])
             ELSE createFilesLoop(existingFiles, projectId, parentId, batch,
                      i + 1,
                      [table |-> acc.table \cup
                                  {[_id |-> acc.nextId,
                                    projectId |-> projectId,
                                    parentId |-> parentId, name |-> name,
                                    content |-> FileContent, type |-> "file",
                                    updatedAt |-> fsNow]},
                       nextId |-> acc.nextId + 1,
                       results |-> Append(acc.results,
                                     [name |-> name, fileId |-> acc.nextId,
                                      error |-> NoError])])

\* system createFiles; the call's record keeps the batch in its name field
\* and the returned results in its result field
createFiles(internalKey, projectId, parentId, batch) ==
    LET res(r) == FsResult("createFiles", internalKey, 0, batch, parentId, r)
        existingFiles == byProjectParent(files, projectId, parentId)
        out == createFilesLoop(existingFiles, projectId, parentId, batch, 1,
                   [table |-> files, nextId |-> nextFileId, results |-> <<>>])
    IN  IF InternalKey # internalKey
        THEN Throw(res("INTERNAL"))
        ELSE /\ out.nextId <= MaxFiles + 1
             /\ fsNow < MaxMutations
             /\ files' = out.table
             /\ nextFileId' = out.nextId
             /\ fsNow' = fsNow + 1
             /\ lastFs' = res(out.results)
             /\ UNCHANGED <<projectUpdatedAt, storage>>

MaxBlobs == 1   \* blobs uploaded, and entries inserted with one, at most

StorageIds == 1..MaxBlobs

\* every _id an insert can have returned
StoredIds == 1..(MaxFiles + MaxBlobs)

\* Date.now() of the mutation after this one; the clock stops at the bound
Later(now) == IF now < MaxMutations THEN now + 1 ELSE now

\* item.storageId: only createBinaryFile writes the field
hasStorageId(item) == "storageId" \in DOMAIN item

\* the importer uploads a blob to the URL of generateUploadUrl; the storage
\* answers with the new storageId
Upload(storageId) ==
    /\ storageId \notin storage
    /\ \A other \in StorageIds \ storage : storageId <= other
    /\ storage' = storage \cup {storageId}
    /\ lastFs' = FsResult("upload", InternalKey, storageId, "none", NoParent,
                          "ok")
    /\ UNCHANGED <<files, nextFileId, fsNow, projectUpdatedAt>>

\* system createBinaryFile
createBinaryFile(internalKey, projectId, name, storageId, parentId) ==
    LET res(r) == FsResult("createBinaryFile", internalKey, 0, name, parentId,
                           r)
        siblings == byProjectParent(files, projectId, parentId)
    IN  IF InternalKey # internalKey
        THEN Throw(res("INTERNAL"))
        ELSE IF existingFile(siblings, name)
        THEN Throw(res("ALREADY_EXISTS"))
        ELSE /\ nextFileId <= MaxFiles + MaxBlobs
             /\ files' = files \cup
                           {[_id |-> nextFileId, projectId |-> projectId,
                             parentId |-> parentId, name |-> name,
                             storageId |-> storageId, type |-> "file",
                             updatedAt |-> fsNow]}
             /\ nextFileId' = nextFileId + 1
             /\ fsNow' = Later(fsNow)
             /\ lastFs' = res("ok")
             /\ UNCHANGED <<projectUpdatedAt, storage>>

\* deleteRecursive(fileId) of both deleteFile handlers, on the table and the
\* storage as they are when it is called; deleteChildren is its loop
\* for (const child of children) over the children collected before it
RECURSIVE deleteRecursive(_, _), deleteChildren(_, _)
deleteRecursive(acc, fileId) ==
    IF dbGet(acc.table, fileId) = {}
    THEN acc
    ELSE LET item == CHOOSE f \in dbGet(acc.table, fileId) : TRUE
             children == IF item.type = "folder"
                         THEN {child._id : child \in
                                  byProjectParent(acc.table, item.projectId,
                                                  fileId)}
                         ELSE {}
             emptied == deleteChildren(acc, children)
             unstored == IF hasStorageId(item)
                         THEN [emptied EXCEPT !.storage = @ \ {item.storageId}]
                         ELSE emptied
         IN  [unstored EXCEPT !.table = {f \in @ : f._id # fileId}]

deleteChildren(acc, children) ==
    IF children = {}
    THEN acc
    ELSE LET child == CHOOSE c \in children : \A d \in children : c <= d
         IN  deleteChildren(deleteRecursive(acc, child), children \ {child})

\* deleteFile
deleteFile(caller, id) ==
    LET res(r) == FsResult("deleteFile", caller, id, "none", NoParent, r)
        out == deleteRecursive([table |-> files, storage |-> storage], id)
    IN  IF dbGet(files, id) = {}
        THEN Throw(res("NOT_FOUND"))
        ELSE IF ProjectOwner # caller
        THEN Throw(res("FORBIDDEN"))
        ELSE /\ files' = out.table
             /\ storage' = out.storage
             /\ projectUpdatedAt' = fsNow
             /\ fsNow' = Later(fsNow)
             /\ lastFs' = res("ok")
             /\ UNCHANGED nextFileId

\* system deleteFile
systemDeleteFile(internalKey, fileId) ==
    LET res(r) == FsResult("systemDeleteFile", internalKey, fileId, "none",
                           NoParent, r)
        out == deleteRecursive([table |-> files, storage |-> storage], fileId)
    IN  IF InternalKey # internalKey
        THEN Throw(res("INTERNAL"))
        ELSE IF dbGet(files, fileId) = {}
        THEN Throw(res("NOT_FOUND"))
        ELSE /\ files' = out.table
             /\ storage' = out.storage
             /\ lastFs' = res("ok")
             /\ UNCHANGED <<nextFileId, fsNow, projectUpdatedAt>>

\* the parents a caller can name: the root and the entries that exist
ParentIds == {NoParent} \cup {f._id : f \in files}

\* the project just created: no entries
FileInit ==
    /\ files = {}
    /\ nextFileId = 1
    /\ fsNow = 0
    /\ projectUpdatedAt = 0
    /\ storage = {}
    /\ lastFs = FsResult("none", "none", 0, "none", NoParent, "none")

(***************************************************************************)
(* Autosave (EditorView component): onChange of the active file's editor   *)
(* sets a timer that calls updateFile; the effect on activeTabId clears    *)
(* the pending timer when the active tab changes.                          *)
(***************************************************************************)
MaxAutosaveEdits == 3   \* onChange calls at most
AutosaveTickMs == 500   \* granularity of the clock

DEBOUNCE_MS == 1500

AutoFiles == {"f1", "f2"}

\* the content of a file: whose it is and which edit produced it (0: as loaded)
Content(file, edit) == [of |-> file, edit |-> edit]

NoUpdate == [called |-> FALSE, id |-> Null, content |-> Content(Null, 0)]

\* clearTimeout(timeoutRef.current) behind if (timeoutRef.current)
ClearAutosave_Keep(pending, ref) == pending

ClearAutosave(pending, ref) ==
    IF ref # 0 THEN {t \in pending : t.id # ref} ELSE pending

\* onChange(content) of the active file's CodeEditor
OnChange(activeFile) ==
    LET content == Content(activeFile, asEdits + 1)
    IN  /\ asEdits < MaxAutosaveEdits
        /\ asActiveTabId = activeFile
        /\ asTimers' = ClearAutosave(asTimers, timeoutRef)
                          \cup {[id |-> asEdits + 1, file |-> activeFile,
                                 content |-> content,
                                 remaining |-> DEBOUNCE_MS]}
        /\ timeoutRef' = asEdits + 1
        /\ asEdits' = asEdits + 1
        /\ lastEdited' = [lastEdited EXCEPT ![activeFile] = content]
        /\ lastUpdate' = NoUpdate
        /\ UNCHANGED <<asActiveTabId, serverContent>>

\* cleanup of useEffect(..., [activeTabId]), run when activeTabId changes
EffectCleanup(pending, ref) == ClearAutosave(pending, ref)

\* the user activates another tab, or closes the active one (tab: null when
\* no tab remains): activeTabId changes and the effect's cleanup runs
ActiveTabChanges(tab) ==
    /\ tab # asActiveTabId
    /\ asActiveTabId' = tab
    /\ asTimers' = EffectCleanup(asTimers, timeoutRef)
    /\ lastUpdate' = NoUpdate
    /\ UNCHANGED <<timeoutRef, serverContent, lastEdited, asEdits>>

\* the setTimeout callback: updateFile({ id: activeFile._id, content })
AutosaveFires(t) ==
    /\ t \in asTimers
    /\ t.remaining = 0
    /\ asTimers' = asTimers \ {t}
    /\ serverContent' = [serverContent EXCEPT ![t.file] = t.content]
    /\ lastUpdate' = [called |-> TRUE, id |-> t.file, content |-> t.content]
    /\ UNCHANGED <<asActiveTabId, timeoutRef, lastEdited, asEdits>>

\* time passes
AutosaveTick ==
    /\ \E t \in asTimers : t.remaining > 0
    /\ asTimers' = {[t EXCEPT !.remaining =
                        IF t.remaining > AutosaveTickMs
                        THEN t.remaining - AutosaveTickMs ELSE 0]
                    : t \in asTimers}
    /\ lastUpdate' = NoUpdate
    /\ UNCHANGED <<asActiveTabId, timeoutRef, serverContent, lastEdited,
                   asEdits>>

\* the component just mounted: no tab is active, every file as stored
AutoInit ==
    /\ asActiveTabId = Null
    /\ timeoutRef = 0
    /\ asTimers = {}
    /\ serverContent = [f \in AutoFiles |-> Content(f, 0)]
    /\ lastEdited = [f \in AutoFiles |-> Content(f, 0)]
    /\ asEdits = 0
    /\ lastUpdate = NoUpdate

(***************************************************************************)
(* Initial states and specifications                                       *)
(***************************************************************************)
\* the editor just constructed, quick-edit fields created, no update yet
QuickInit ==
    /\ qeDoc = QeInitialDoc
    /\ qeSelection = Range(0, 0)
    /\ quickEditState = FALSE
    /\ quickEditTooltips = {}
    /\ tooltipDom = NoDom
    /\ editorView = Null
    /\ qeAbortController = 0
    /\ qeRequests = [r \in 1..MaxQeRequests |-> NoQeRequest]
    /\ qeTyped = 0
    /\ qeLast = [kind |-> "none", id |-> 0, outcome |-> NoSuggestion,
                 wasActive |-> FALSE]

NoCall ==
    [op |-> "init", projectId |-> Null, fileId |-> Null, pinned |-> FALSE,
     before |-> DefaultTabStateValue, entryBefore |-> NoEntry]

\* create(): tabs: new Map()
TabInit ==
    /\ tabs = [p \in Projects |-> NoEntry]
    /\ defaultTabState = DefaultTabStateValue
    /\ lastCall = NoCall
    /\ lastRead = NoRead

\* no editor is mounted
NoEditor ==
    /\ mounted = {}
    /\ doc = [v \in Views |-> <<>>]
    /\ cursor = [v \in Views |-> 0]
    /\ suggestion = [v \in Views |-> NoSuggestion]
    /\ decorations = [v \in Views |-> DecorationNone]
    /\ debounceTimer = 0
    /\ isWaitingForSuggestion = FALSE
    /\ currentAbortController = 0
    /\ timers = {}
    /\ requests = [r \in 1..MaxEvents |-> NoRequest]
    /\ evCount = 0
    /\ burstStart = 0
    /\ superseded = {}
    /\ firedEvs = {}
    /\ blankFired = {}
    /\ lastResult = NoResult
    /\ lastStep = Step("none", 0, FALSE)

\* the documents an editor is created with (initialValue)
InitialDocs == {<<>>, <<"a">>}

\* one editor just constructed: the debounce plugin's constructor has called
\* triggerSuggestion(view)
SuggInit ==
    /\ mounted = {"v1"}
    /\ doc \in {[v \in Views |-> IF v = "v1" THEN d ELSE <<>>] : d \in InitialDocs}
    /\ cursor = [v \in Views |-> 0]
    /\ suggestion = [v \in Views |-> NoSuggestion]
    /\ decorations = [v \in Views |-> DecorationNone]
    /\ debounceTimer = 1
    /\ isWaitingForSuggestion = TRUE
    /\ currentAbortController = 0
    /\ timers = {[id |-> 1, view |-> "v1", remaining |-> DEBOUNCE_DELAY]}
    /\ requests = [r \in 1..MaxEvents |-> NoRequest]
    /\ evCount = 1
    /\ burstStart = 1
    /\ superseded = {}
    /\ firedEvs = {}
    /\ blankFired = {}
    /\ lastResult = NoResult
    /\ lastStep = Step("mount", 1, FALSE)

OpenFileStep ==
    /\ \E p \in Projects : \E f \in FilesOf(p), pinned \in BOOLEAN :
          openFile(p, f, pinned)
    /\ lastRead' = NoRead
    /\ UNCHANGED <<suggVars, quickVars, fileVars, autoVars>>

CloseTabStep ==
    /\ \E p \in Projects : \E f \in FilesOf(p) : closeTab(p, f)
    /\ lastRead' = NoRead
    /\ UNCHANGED <<suggVars, quickVars, fileVars, autoVars>>

CloseAllTabsStep ==
    /\ \E p \in Projects : closeAllTabs(p)
    /\ lastRead' = NoRead
    /\ UNCHANGED <<suggVars, quickVars, fileVars, autoVars>>

SetActiveTabStep ==
    /\ \E p \in Projects : \E f \in FilesOf(p) : setActiveTab(p, f)
    /\ lastRead' = NoRead
    /\ UNCHANGED <<suggVars, quickVars, fileVars, autoVars>>

TabNext == OpenFileStep \/ CloseTabStep \/ CloseAllTabsStep \/ SetActiveTabStep

\* the tab store under arbitrary calls
Init == TabInit /\ NoEditor /\ QuickInit /\ FileInit /\ AutoInit

Spec == Init /\ [][TabNext]_vars

\* setActiveTab as the tab bar calls it: on one of the project's open tabs
SetActiveOpenTabStep ==
    /\ \E p \in Projects : \E f \in FilesOf(p) :
          /\ Includes(getTabState(p).openTabs, f)
          /\ setActiveTab(p, f)
    /\ lastRead' = NoRead
    /\ UNCHANGED <<suggVars, quickVars, fileVars, autoVars>>

OpenTabNext ==
    \/ OpenFileStep
    \/ CloseTabStep
    \/ CloseAllTabsStep
    \/ SetActiveOpenTabStep

OpenTabSpecInit == TabInit /\ NoEditor /\ QuickInit /\ FileInit /\ AutoInit

\* the tab store when setActiveTab is called on open tabs only
OpenTabSpec == OpenTabSpecInit /\ [][OpenTabNext]_vars

GetTabStateStep ==
    /\ \E p \in Projects : GetTabState(p)
    /\ UNCHANGED <<suggVars, quickVars, fileVars, autoVars>>

ReadNext ==
    \/ OpenFileStep
    \/ CloseTabStep
    \/ CloseAllTabsStep
    \/ SetActiveTabStep
    \/ GetTabStateStep

\* the tab store under arbitrary calls, reads included
ReadSpecInit == TabInit /\ NoEditor /\ QuickInit /\ FileInit /\ AutoInit

ReadSpec == ReadSpecInit /\ [][ReadNext]_vars

InsertCharStep ==
    /\ \E v \in Views, c \in Chars : InsertChar(v, c)
    /\ UNCHANGED <<tabVars, quickVars, fileVars, autoVars>>

DeleteBackwardStep ==
    /\ \E v \in Views : DeleteBackward(v)
    /\ UNCHANGED <<tabVars, quickVars, fileVars, autoVars>>

MoveCursorStep ==
    /\ \E v \in Views, pos \in 0..MaxTextLen : MoveCursor(v, pos)
    /\ UNCHANGED <<tabVars, quickVars, fileVars, autoVars>>

AcceptSuggestionStep ==
    /\ \E v \in Views : AcceptSuggestion(v)
    /\ UNCHANGED <<tabVars, quickVars, fileVars, autoVars>>

TimerFiresStep ==
    /\ \E t \in timers : TimerFires(t)
    /\ UNCHANGED <<tabVars, quickVars, fileVars, autoVars>>

FetchSettlesStep ==
    /\ \E id \in DOMAIN requests :
          \E outcome \in AllOutcomes : FetchSettles(id, outcome)
    /\ UNCHANGED <<tabVars, quickVars, fileVars, autoVars>>

TickStep ==
    /\ Tick
    /\ UNCHANGED <<tabVars, quickVars, fileVars, autoVars>>

SuggNext ==
    \/ InsertCharStep
    \/ DeleteBackwardStep
    \/ MoveCursorStep
    \/ AcceptSuggestionStep
    \/ TimerFiresStep
    \/ FetchSettlesStep
    \/ TickStep

\* one mounted editor with the suggestion extension
SuggSpecInit == SuggInit /\ TabInit /\ QuickInit /\ FileInit /\ AutoInit

SuggSpec == SuggSpecInit /\ [][SuggNext]_vars

MountStep ==
    /\ \E v \in Views, d \in InitialDocs : Mount(v, d)
    /\ UNCHANGED <<tabVars, quickVars, fileVars, autoVars>>

DestroyStep ==
    /\ \E v \in Views : Destroy(v)
    /\ UNCHANGED <<tabVars, quickVars, fileVars, autoVars>>

\* a letter is typed in one of the editors
TypeLetterStep ==
    /\ \E v \in Views : InsertChar(v, "a")
    /\ UNCHANGED <<tabVars, quickVars, fileVars, autoVars>>

TwoEditorNext ==
    \/ MountStep
    \/ DestroyStep
    \/ TypeLetterStep
    \/ TimerFiresStep
    \/ FetchSettlesStep
    \/ TickStep

TwoEditorSpecInit == SuggInit /\ TabInit /\ QuickInit /\ FileInit /\ AutoInit

\* editors with the suggestion extension that are mounted and destroyed
\* while others are alive; typing is the only qualifying event
TwoEditorSpec == TwoEditorSpecInit /\ [][TwoEditorNext]_vars

\* an issued request resolves: the awaited fetcher call returns
ResolveStep ==
    /\ \E id \in DOMAIN requests :
          \E outcome \in AllOutcomes \ {Rejected} : FetchSettles(id, outcome)
    /\ UNCHANGED <<tabVars, quickVars, fileVars, autoVars>>

SuggLiveNext ==
    \/ InsertCharStep
    \/ DeleteBackwardStep
    \/ MoveCursorStep
    \/ AcceptSuggestionStep
    \/ TimerFiresStep
    \/ ResolveStep
    \/ TickStep

SuggLiveSpecInit == SuggInit /\ TabInit /\ QuickInit /\ FileInit /\ AutoInit

\* one mounted editor whose requests all resolve: time passes, an expired
\* timer's callback runs, and an issued request eventually returns; the user
\* may stop at any time
SuggLiveSpec ==
    /\ SuggLiveSpecInit
    /\ [][SuggLiveNext]_vars
    /\ WF_vars(TickStep)
    /\ WF_vars(TimerFiresStep)
    /\ WF_vars(ResolveStep)

SetSelectionStep ==
    /\ \E sel \in Selections : SetSelection(sel.from, sel.to)
    /\ UNCHANGED <<tabVars, suggVars, fileVars, autoVars>>

TypeCharStep ==
    /\ TypeChar(TypedChar)
    /\ UNCHANGED <<tabVars, suggVars, fileVars, autoVars>>

ModKStep ==
    /\ ModK
    /\ UNCHANGED <<tabVars, suggVars, fileVars, autoVars>>

CancelClickStep ==
    /\ CancelClick
    /\ UNCHANGED <<tabVars, suggVars, fileVars, autoVars>>

SubmitStep ==
    /\ \E hasInstruction \in BOOLEAN : Submit(hasInstruction)
    /\ UNCHANGED <<tabVars, suggVars, fileVars, autoVars>>

QeFetchSettlesStep ==
    /\ \E id \in DOMAIN qeRequests :
          \E outcome \in QeAllOutcomes : QeFetchSettles(id, outcome)
    /\ UNCHANGED <<tabVars, suggVars, fileVars, autoVars>>

QuickNext ==
    \/ SetSelectionStep
    \/ TypeCharStep
    \/ ModKStep
    \/ CancelClickStep
    \/ SubmitStep
    \/ QeFetchSettlesStep

\* one editor with the quick-edit extension
QuickSpecInit == QuickInit /\ TabInit /\ NoEditor /\ FileInit /\ AutoInit

QuickSpec == QuickSpecInit /\ [][QuickNext]_vars

CreateFileStep ==
    /\ \E caller \in Users, parentId \in ParentIds, name \in FileNames :
          createFile(caller, FileProject, parentId, name, FileContent)
    /\ UNCHANGED <<tabVars, suggVars, quickVars, autoVars>>

CreateFolderStep ==
    /\ \E caller \in Users, parentId \in ParentIds, name \in FileNames :
          createFolder(caller, FileProject, parentId, name)
    /\ UNCHANGED <<tabVars, suggVars, quickVars, autoVars>>

RenameFileStep ==
    /\ \E caller \in Users, id \in FileIds, newName \in FileNames :
          renameFile(caller, id, newName)
    /\ UNCHANGED <<tabVars, suggVars, quickVars, autoVars>>

SystemRenameFileStep ==
    /\ \E internalKey \in Keys, fileId \in FileIds, newName \in FileNames :
          systemRenameFile(internalKey, fileId, newName)
    /\ UNCHANGED <<tabVars, suggVars, quickVars, autoVars>>

FileNext ==
    \/ CreateFileStep
    \/ CreateFolderStep
    \/ RenameFileStep
    \/ SystemRenameFileStep

\* the file store of one project under arbitrary calls
FileSpecInit == FileInit /\ TabInit /\ NoEditor /\ QuickInit /\ AutoInit

FileSpec == FileSpecInit /\ [][FileNext]_vars

CreateFilesStep ==
    /\ \E internalKey \in Keys, parentId \in ParentIds, batch \in Batches :
          createFiles(internalKey, FileProject, parentId, batch)
    /\ UNCHANGED <<tabVars, suggVars, quickVars, autoVars>>

BulkNext ==
    \/ CreateFileStep
    \/ CreateFolderStep
    \/ CreateFilesStep

BulkSpecInit == FileInit /\ TabInit /\ NoEditor /\ QuickInit /\ AutoInit

\* the file store of one project when files are created one by one and in
\* batches
BulkSpec == BulkSpecInit /\ [][BulkNext]_vars

UploadStep ==
    /\ \E storageId \in StorageIds : Upload(storageId)
    /\ UNCHANGED <<tabVars, suggVars, quickVars, autoVars>>

\* the importer passes the storageId its upload has just returned
CreateBinaryFileStep ==
    /\ \E internalKey \in Keys, parentId \in ParentIds, name \in FileNames,
          storageId \in storage :
          /\ ~\E f \in files : hasStorageId(f) /\ f.storageId = storageId
          /\ createBinaryFile(internalKey, FileProject, name, storageId,
                              parentId)
    /\ UNCHANGED <<tabVars, suggVars, quickVars, autoVars>>

DeleteFileStep ==
    /\ \E caller \in Users, id \in StoredIds : deleteFile(caller, id)
    /\ UNCHANGED <<tabVars, suggVars, quickVars, autoVars>>

SystemDeleteFileStep ==
    /\ \E internalKey \in Keys, fileId \in StoredIds :
          systemDeleteFile(internalKey, fileId)
    /\ UNCHANGED <<tabVars, suggVars, quickVars, autoVars>>

DeleteNext ==
    \/ CreateFileStep
    \/ CreateFolderStep
    \/ UploadStep
    \/ CreateBinaryFileStep
    \/ DeleteFileStep
    \/ SystemDeleteFileStep

DeleteSpecInit == FileInit /\ TabInit /\ NoEditor /\ QuickInit /\ AutoInit

\* the file store of one project when entries, binary files included, are
\* created and deleted
DeleteSpec == DeleteSpecInit /\ [][DeleteNext]_vars

OnChangeStep ==
    /\ \E f \in AutoFiles : OnChange(f)
    /\ UNCHANGED <<tabVars, suggVars, quickVars, fileVars>>

ActiveTabChangesStep ==
    /\ \E tab \in AutoFiles \cup {Null} : ActiveTabChanges(tab)
    /\ UNCHANGED <<tabVars, suggVars, quickVars, fileVars>>

AutosaveFiresStep ==
    /\ \E t \in asTimers : AutosaveFires(t)
    /\ UNCHANGED <<tabVars, suggVars, quickVars, fileVars>>

AutosaveTickStep ==
    /\ AutosaveTick
    /\ UNCHANGED <<tabVars, suggVars, quickVars, fileVars>>

AutosaveNext ==
    \/ OnChangeStep
    \/ ActiveTabChangesStep
    \/ AutosaveFiresStep
    \/ AutosaveTickStep

AutosaveSpecInit == AutoInit /\ TabInit /\ NoEditor /\ QuickInit /\ FileInit

\* the EditorView component: the user may stop at any time; time passes and
\* an expired timer's callback runs
AutosaveSpec ==
    /\ AutosaveSpecInit
    /\ [][AutosaveNext]_vars
    /\ WF_vars(AutosaveTickStep)
    /\ WF_vars(AutosaveFiresStep)

(***************************************************************************)
(* Tab store: properties                                                   *)
(***************************************************************************)
\* the state of the project the last call was made on
Now == getTabState(lastCall.projectId)

Was == lastCall.before

\* C1: in every reachable state, each project's previewTabId is none or an
\* element of that project's openTabs
C1_PreviewInOpenTabs ==
    \A p \in Projects :
        \/ getTabState(p).previewTabId = Null
        \/ Includes(getTabState(p).openTabs, getTabState(p).previewTabId)

\* C1 witness: closeTab has closed a tab other than the preview tab, and the
\* preview tab stays open among the two remaining tabs
C1_Witness ==
    /\ lastCall.op = "closeTab"
    /\ Was.previewTabId # Null
    /\ Was.previewTabId # lastCall.fileId
    /\ Includes(Was.openTabs, lastCall.fileId)
    /\ Now.previewTabId = Was.previewTabId
    /\ Len(Now.openTabs) = 2

ActiveOK(p) ==
    \/ getTabState(p).activeTabId = Null
    \/ Includes(getTabState(p).openTabs, getTabState(p).activeTabId)

\* C2 as stated: with arbitrary file ids as arguments, each project's
\* activeTabId is none or an element of its openTabs
C2_ActiveInOpenTabs == \A p \in Projects : ActiveOK(p)

\* the step is a setActiveTab on p whose file is not one of p's open tabs
StrayActivate(p) ==
    /\ lastCall'.op = "setActiveTab"
    /\ lastCall'.projectId = p
    /\ ~Includes(lastCall'.before.openTabs, lastCall'.fileId)

\* C2 amended: activeTabId is none or an element of openTabs initially, and
\* every call keeps it so except a setActiveTab whose file is not an open tab
C2_ActiveInOpenTabsUnlessStray ==
    /\ (TabInit => \A p \in Projects : ActiveOK(p))
    /\ [][\A p \in Projects :
            (ActiveOK(p) /\ ~StrayActivate(p)) => ActiveOK(p)']_tabVars

\* C2 witness: setActiveTab on an open, not yet active tab has moved the focus
C2_Witness ==
    /\ lastCall.op = "setActiveTab"
    /\ Includes(Was.openTabs, lastCall.fileId)
    /\ Was.activeTabId # lastCall.fileId
    /\ Was.activeTabId # Null
    /\ Now.activeTabId = lastCall.fileId

\* C3: in every reachable state no file id occurs twice in a project's openTabs
C3_NoDuplicateTabs ==
    \A p \in Projects :
        \A i, j \in 1..Len(getTabState(p).openTabs) :
            getTabState(p).openTabs[i] = getTabState(p).openTabs[j] => i = j

\* C3 witness: openFile was called on a file that is already open, with
\* three tabs open
C3_Witness ==
    /\ lastCall.op = "openFile"
    /\ lastCall.pinned
    /\ Includes(Was.openTabs, lastCall.fileId)
    /\ Len(Now.openTabs) = 3

\* C4: a call on project P leaves the Map entry and the tab state of every
\* other project as they were
C4_OtherProjectsUnchanged ==
    [][\A q \in Projects :
          q # lastCall'.projectId =>
              /\ tabs'[q] = tabs[q]
              /\ getTabState(q)' = getTabState(q)]_tabVars

\* C4 witness: a file was opened in p1 while p2, reset by closeAllTabs, holds
\* the shared default state, and p1 has tabs open
C4_Witness ==
    /\ lastCall.op = "openFile"
    /\ lastCall.projectId = "p1"
    /\ tabs["p2"] = DefaultRef
    /\ Len(getTabState("p1").openTabs) >= 2
    /\ getTabState("p2") = DefaultTabStateValue

\* C5: a preview open of a file that is not open replaces the preview tab in
\* place (same length, same index, other tabs keep their index, the old
\* preview is gone), or appends when there is no preview tab; the file
\* becomes the active and the preview tab
C5_PreviewOpenReplacesInPlace ==
    (/\ lastCall.op = "openFile"
     /\ ~lastCall.pinned
     /\ ~Includes(Was.openTabs, lastCall.fileId))
    => /\ Now.activeTabId = lastCall.fileId
       /\ Now.previewTabId = lastCall.fileId
       /\ IF Was.previewTabId # Null
          THEN /\ Len(Now.openTabs) = Len(Was.openTabs)
               /\ \A i \in 1..Len(Was.openTabs) :
                     IF Was.openTabs[i] = Was.previewTabId
                     THEN Now.openTabs[i] = lastCall.fileId
                     ELSE Now.openTabs[i] = Was.openTabs[i]
               /\ \E i \in 1..Len(Was.openTabs) : Was.openTabs[i] = Was.previewTabId
               /\ ~Includes(Now.openTabs, Was.previewTabId)
          ELSE Now.openTabs = Was.openTabs \o <<lastCall.fileId>>

\* C5 witness: a preview open replaced a preview tab that was not the last tab
C5_Witness ==
    /\ lastCall.op = "openFile"
    /\ ~lastCall.pinned
    /\ ~Includes(Was.openTabs, lastCall.fileId)
    /\ Len(Was.openTabs) = 2
    /\ Was.openTabs[1] = Was.previewTabId
    /\ Now.openTabs[1] = lastCall.fileId

\* C6: openFile on a file that is already open keeps openTabs, makes the file
\* active, and clears previewTabId exactly when pinned and the file was the
\* preview tab
C6_OpenExistingKeepsTabs ==
    (/\ lastCall.op = "openFile"
     /\ Includes(Was.openTabs, lastCall.fileId))
    => /\ Now.openTabs = Was.openTabs
       /\ Now.activeTabId = lastCall.fileId
       /\ (lastCall.pinned /\ Was.previewTabId = lastCall.fileId)
              => Now.previewTabId = Null
       /\ ~(lastCall.pinned /\ Was.previewTabId = lastCall.fileId)
              => Now.previewTabId = Was.previewTabId

\* C6 witness: a pinned open of an open file that is not the preview tab,
\* while another tab is in preview
C6_Witness ==
    /\ lastCall.op = "openFile"
    /\ lastCall.pinned
    /\ Includes(Was.openTabs, lastCall.fileId)
    /\ Was.previewTabId # Null
    /\ Was.previewTabId # lastCall.fileId
    /\ Was.activeTabId # lastCall.fileId

\* C7: closing the active tab at index i makes the former right neighbour
\* active; if it was the last tab, the new last tab; if none remain, none
C7_CloseActivePicksSuccessor ==
    (/\ lastCall.op = "closeTab"
     /\ Was.activeTabId = lastCall.fileId
     /\ Includes(Was.openTabs, lastCall.fileId))
    => LET i == CHOOSE k \in 1..Len(Was.openTabs) : Was.openTabs[k] = lastCall.fileId
       IN  /\ Len(Now.openTabs) = Len(Was.openTabs) - 1
           /\ IF Len(Was.openTabs) = 1 THEN Now.activeTabId = Null
              ELSE IF i = Len(Was.openTabs)
                   THEN /\ Now.activeTabId = Was.openTabs[i - 1]
                        /\ Now.activeTabId = Now.openTabs[Len(Now.openTabs)]
                   ELSE /\ Now.activeTabId = Was.openTabs[i + 1]
                        /\ Now.activeTabId = Now.openTabs[i]

\* C7 witness: the active middle tab of three was closed
C7_Witness ==
    /\ lastCall.op = "closeTab"
    /\ Len(Was.openTabs) = 3
    /\ Was.openTabs[2] = lastCall.fileId
    /\ Was.activeTabId = lastCall.fileId
    /\ Now.activeTabId = Was.openTabs[3]

\* C8: closeAllTabs leaves the project with no open tabs, no active tab and
\* no preview tab, whatever its state was
C8_CloseAllYieldsDefault ==
    lastCall.op = "closeAllTabs"
    => /\ Now.openTabs = <<>>
       /\ Now.activeTabId = Null
       /\ Now.previewTabId = Null

\* C8 witness: closeAllTabs ran on a project with tabs open, one of them
\* active and one in preview
C8_Witness ==
    /\ lastCall.op = "closeAllTabs"
    /\ Len(Was.openTabs) >= 2
    /\ Was.activeTabId # Null
    /\ Was.previewTabId # Null
    /\ Now = DefaultTabStateValue

(***************************************************************************)
(* Inline suggestion extension: properties                                 *)
(***************************************************************************)
\* the text a stored suggestion offers: null and "" both offer nothing
Offered(sug) == IF Truthy(sug) THEN sug.text ELSE <<>>

\* C9: when a request aborted by a newer event settles, whatever it settles
\* with, the stored suggestion stays what it was (a change between null and
\* the empty string, which both mean "no suggestion", is not counted)
C9_AbortedResolutionKeepsSuggestion ==
    [][(lastStep'.kind \in {"resolve", "reject"} /\ lastStep'.aborted)
          => \A v \in Views : Offered(suggestion'[v]) = Offered(suggestion[v])]_vars

\* the events of the current burst for which a request was issued
IssuedInBurst == {e \in burstStart..evCount : requests[e].state # "none"}

\* no event that was followed by another while its timer was pending has had
\* its callback run or its request issued
SupersededNeverFetch ==
    /\ firedEvs \cap superseded = {}
    /\ \A e \in superseded : requests[e].state = "none"

\* C10 as stated: the fetch of a superseded event is never issued, and a
\* finished burst has issued exactly one request, that of its final event
C10_ExactlyOneRequestPerBurst ==
    /\ SupersededNeverFetch
    /\ timers = {} => IssuedInBurst = {evCount}

\* C10 amended: the fetch of a superseded event is never issued, and a
\* finished burst (each event arriving while the timer of the one before is
\* pending) has issued exactly one request, that of its final event, when
\* the document was not blank as the timer fired, and none when it was blank
C10_OneRequestPerBurstUnlessBlank ==
    /\ SupersededNeverFetch
    /\ timers = {} =>
          /\ evCount \in firedEvs
          /\ IssuedInBurst = (IF evCount \in blankFired THEN {} ELSE {evCount})

\* C10 witness: a burst of three events has finished and the one request
\* issued is that of the third
C10_Witness ==
    /\ timers = {}
    /\ burstStart = 1
    /\ evCount = 3
    /\ superseded = {1, 2}
    /\ requests[3].state = "inflight"
    /\ requests[1].state = "none"
    /\ requests[2].state = "none"

\* C11: the accept key inserts a suggestion only when the fetch for the
\* latest document change or cursor move has settled, never one computed
\* before that change
C11_AcceptOnlyCurrentSuggestion ==
    [][lastStep'.kind = "accept" => requests[evCount].state = "settled"]_vars

\* the issued requests that are neither settled nor aborted
Alive == {r \in DOMAIN requests :
             requests[r].state = "inflight" /\ ~requests[r].aborted}

\* C12: at most one issued request is unresolved and not aborted, and when a
\* request is issued every earlier one has settled or been aborted
C12_AtMostOneAliveRequest ==
    /\ Cardinality(Alive) <= 1
    /\ lastStep.kind = "timer" =>
          \A r \in DOMAIN requests :
              (r # lastStep.id /\ requests[r].state # "none")
                  => (requests[r].state = "settled" \/ requests[r].aborted)

\* C12 witness: a request has just been issued while an earlier one, aborted
\* by the event that scheduled it, is still unresolved
C12_Witness ==
    /\ lastStep.kind = "timer"
    /\ requests[lastStep.id].state = "inflight"
    /\ \E r \in DOMAIN requests :
          /\ r < lastStep.id
          /\ requests[r].state = "inflight"
          /\ requests[r].aborted

\* C13: accepting suggestion s with the cursor at c in document d gives the
\* document d[0..c) + s + d[c..], the cursor at c + len(s) and no stored
\* suggestion
C13_AcceptInsertsAtCursor ==
    [][lastStep'.kind = "accept" =>
          \A v \in mounted :
              LET d == doc[v]
                  c == cursor[v]
                  s == suggestion[v].text
              IN  /\ Len(doc'[v]) = Len(d) + Len(s)
                  /\ \A i \in 1..c : doc'[v][i] = d[i]
                  /\ \A i \in 1..Len(s) : doc'[v][c + i] = s[i]
                  /\ \A i \in (c + 1)..Len(d) : doc'[v][i + Len(s)] = d[i]
                  /\ cursor'[v] = c + Len(s)
                  /\ suggestion'[v] = NoSuggestion]_vars

\* C13 witness: a suggestion was accepted with the cursor strictly inside the
\* document
C13_Witness ==
    /\ lastStep.kind = "accept"
    /\ doc["v1"] = <<"a", "b", "a">>
    /\ cursor["v1"] = 2
    /\ suggestion["v1"] = NoSuggestion

\* C14: when the stored suggestion is absent or the empty string, the accept
\* key is reported unhandled and document, selection and stored suggestion
\* stay as they are
C14_NoSuggestionTabUnhandled ==
    [][(/\ lastStep'.kind \in {"accept", "unhandled"}
        /\ \A v \in mounted :
              ~suggestion[v].present \/ suggestion[v].text = <<>>)
          => /\ lastStep'.kind = "unhandled"
             /\ doc' = doc
             /\ cursor' = cursor
             /\ suggestion' = suggestion]_vars

\* C14 witness: the accept key was pressed, and reported unhandled, while the
\* stored suggestion is the empty string and the document is not empty
C14_Witness ==
    /\ lastStep.kind = "unhandled"
    /\ suggestion["v1"] = Text(<<>>)
    /\ doc["v1"] # <<>>
    /\ ~isWaitingForSuggestion

\* C15: the ghost-text decoration set is empty whenever the waiting flag is
\* true or the stored suggestion is absent or empty, and otherwise is exactly
\* one widget with the stored suggestion text at the cursor head
C15_GhostTextMatchesState ==
    \A v \in mounted :
        IF \/ isWaitingForSuggestion
           \/ ~suggestion[v].present
           \/ suggestion[v].text = <<>>
        THEN decorations[v] = {}
        ELSE /\ Cardinality(decorations[v]) = 1
             /\ \A w \in decorations[v] :
                   w.text = suggestion[v].text /\ w.pos = cursor[v]

\* C15 witness: a cursor move has hidden the ghost text of a suggestion that
\* is still stored
C15_Witness ==
    /\ lastStep.kind = "input"
    /\ isWaitingForSuggestion
    /\ suggestion["v1"] = Text(SuggestedText)
    /\ decorations["v1"] = {}
    /\ cursor["v1"] = 1

(***************************************************************************)
(* Quick-edit extension: properties                                        *)
(***************************************************************************)
\* the step settles a quick-edit request (its promise resolves, rejects, or
\* the dispatch of its result throws)
QeSettleStep == qeLast'.kind \in {"resolve", "reject", "apply-throws"}

\* C16: after a cancel click the session is inactive and every request in
\* flight has been aborted, and the settling of an aborted request leaves
\* document and selection as they are
C16_CancelAbortsInFlight ==
    [][/\ qeLast'.kind = "cancel" =>
             /\ ~quickEditState'
             /\ \A r \in DOMAIN qeRequests :
                   qeRequests'[r].state = "inflight" => qeRequests'[r].aborted
       /\ (QeSettleStep /\ qeRequests[qeLast'.id].aborted) =>
             /\ qeDoc' = qeDoc
             /\ qeSelection' = qeSelection]_vars

C18_TriggerNeedsSelection ==
    [][qeLast'.kind \in {"modk", "modk-unhandled"} =>
          IF qeSelection.from = qeSelection.to
          THEN /\ qeLast'.kind = "modk-unhandled"
               /\ ~quickEditState
               /\ UNCHANGED <<qeDoc, qeSelection, quickEditState,
                              quickEditTooltips, tooltipDom, qeRequests,
                              qeAbortController>>
          ELSE /\ qeLast'.kind = "modk"
               /\ quickEditState'
               /\ UNCHANGED <<qeDoc, qeSelection>>]_vars

\* C18 witness: Mod-k was pressed with an empty selection after a session
\* had been opened and its request submitted
C18_Witness ==
    /\ qeLast.kind = "modk-unhandled"
    /\ qeSelection.from = qeSelection.to
    /\ ~quickEditState
    /\ qeRequests[1].state = "inflight"

\* C19: when a request submitted with selection [from, to) in document d
\* returns non-empty text e and the document was not edited in between, the
\* document becomes d[0..from) + e + d[to..], the cursor is at from + len(e)
\* and the session is inactive
C19_SuccessReplacesSelection ==
    [][(/\ QeSettleStep
        /\ qeLast'.outcome.present
        /\ Len(qeLast'.outcome.text) > 0
        /\ ~qeRequests[qeLast'.id].edited)
          => LET req == qeRequests[qeLast'.id]
                 e   == qeLast'.outcome.text
                 d   == qeDoc
             IN  /\ Len(qeDoc') = req.from + Len(e) + (Len(d) - req.to)
                 /\ \A i \in 1..req.from : qeDoc'[i] = d[i]
                 /\ \A i \in 1..Len(e) : qeDoc'[req.from + i] = e[i]
                 /\ \A i \in (req.to + 1)..Len(d) :
                       qeDoc'[i - req.to + req.from + Len(e)] = d[i]
                 /\ qeSelection' = Range(req.from + Len(e), req.from + Len(e))
                 /\ ~quickEditState']_vars

\* C19 witness: the result of the only request, submitted on [1, 2) of the
\* untouched initial document, has been applied
C19_Witness ==
    /\ qeLast.kind = "resolve"
    /\ qeLast.outcome.present
    /\ qeTyped = 0
    /\ qeRequests[2].state = "none"
    /\ qeDoc = <<"x">> \o qeLast.outcome.text \o <<"z">>
    /\ qeSelection = Range(3, 3)
    /\ ~quickEditState

\* the quick-edit requests that are in flight and not aborted
QeAlive == {r \in DOMAIN qeRequests :
               qeRequests[r].state = "inflight" /\ ~qeRequests[r].aborted}

\* C20: at most one quick-edit request is in flight and not aborted, and a
\* submission starts only when no earlier request is still in flight and not
\* aborted
C20_AtMostOneQuickEditRequest ==
    /\ Cardinality(QeAlive) <= 1
    /\ qeLast.kind = "submit" => QeAlive \subseteq {qeLast.id}

\* C21: when a request that was not cancelled returns null or the empty
\* string, document and selection are unchanged, the session is as active as
\* it was, and the submit button of the tooltip is enabled again (a button
\* still disabled belongs to another request that is in flight)
C21_FailureKeepsSessionOpen ==
    [][(/\ QeSettleStep
        /\ ~qeRequests[qeLast'.id].aborted
        /\ ~(qeLast'.outcome.present /\ Len(qeLast'.outcome.text) > 0))
          => /\ qeDoc' = qeDoc
             /\ qeSelection' = qeSelection
             /\ quickEditState' = quickEditState
             /\ quickEditTooltips' = quickEditTooltips
             /\ tooltipDom'.present = tooltipDom.present
             /\ (tooltipDom'.present /\ tooltipDom'.disabled) =>
                   /\ tooltipDom'.owner # qeLast'.id
                   /\ qeRequests'[tooltipDom'.owner].state = "inflight"]_vars

\* C21 witness: the request of the active session has returned no result and
\* the submit button of the form it was submitted from is enabled again
C21_Witness ==
    /\ qeLast.kind = "resolve"
    /\ ~qeLast.outcome.present
    /\ qeLast.wasActive
    /\ quickEditState
    /\ tooltipDom.present
    /\ tooltipDom.owner = qeLast.id
    /\ ~tooltipDom.disabled
    /\ qeDoc = QeInitialDoc

(***************************************************************************)
(* Tab store: frame properties                                             *)
(***************************************************************************)
\* C22: a pinned open of a file that is not open appends it at the end (the
\* other tabs keep their index), makes it active and leaves previewTabId as
\* it was
C22_PinnedOpenAppends ==
    (/\ lastCall.op = "openFile"
     /\ lastCall.pinned
     /\ \A i \in 1..Len(Was.openTabs) : Was.openTabs[i] # lastCall.fileId)
    => /\ Len(Now.openTabs) = Len(Was.openTabs) + 1
       /\ \A i \in 1..Len(Was.openTabs) : Now.openTabs[i] = Was.openTabs[i]
       /\ Now.openTabs[Len(Now.openTabs)] = lastCall.fileId
       /\ Now.activeTabId = lastCall.fileId
       /\ Now.previewTabId = Was.previewTabId

\* C22 witness: a pinned open appended a third tab while the first tab is in
\* preview, and it still is
C22_Witness ==
    /\ lastCall.op = "openFile"
    /\ lastCall.pinned
    /\ Len(Was.openTabs) = 2
    /\ Len(Now.openTabs) = 3
    /\ Was.previewTabId = Was.openTabs[1]
    /\ Now.previewTabId = Now.openTabs[1]
    /\ Now.activeTabId = Now.openTabs[3]

\* C23: closeTab on a file that is not among the project's open tabs leaves
\* the whole store as it was: every project's entry, an absent entry included
C23_CloseAbsentIsNoOp ==
    [][(/\ lastCall'.op = "closeTab"
        /\ \A i \in 1..Len(lastCall'.before.openTabs) :
              lastCall'.before.openTabs[i] # lastCall'.fileId)
          => /\ tabs' = tabs
             /\ defaultTabState' = defaultTabState
             /\ \A p \in Projects : getTabState(p)' = getTabState(p)]_tabVars

\* C23 witness: closeTab ran on a project that has no entry, and still has
\* none, while the other project has tabs open
C23_Witness ==
    /\ lastCall.op = "closeTab"
    /\ lastCall.projectId = "p2"
    /\ lastCall.entryBefore = NoEntry
    /\ tabs["p2"] = NoEntry
    /\ Len(getTabState("p1").openTabs) >= 2

\* C24: closing an open tab that is not the active one removes exactly that
\* tab, keeps the order of the others, leaves activeTabId as it was, and
\* clears previewTabId when the tab was the preview tab (otherwise
\* previewTabId is as it was)
C24_CloseInactiveKeepsActive ==
    (/\ lastCall.op = "closeTab"
     /\ \E i \in 1..Len(Was.openTabs) : Was.openTabs[i] = lastCall.fileId
     /\ Was.activeTabId # lastCall.fileId)
    => LET k == CHOOSE i \in 1..Len(Was.openTabs) :
                    Was.openTabs[i] = lastCall.fileId
       IN  /\ Len(Now.openTabs) = Len(Was.openTabs) - 1
           /\ \A i \in 1..(k - 1) : Now.openTabs[i] = Was.openTabs[i]
           /\ \A i \in k..Len(Now.openTabs) : Now.openTabs[i] = Was.openTabs[i + 1]
           /\ Now.activeTabId = Was.activeTabId
           /\ Now.previewTabId =
                 (IF Was.previewTabId = lastCall.fileId THEN Null
                  ELSE Was.previewTabId)

\* C24 witness: the preview tab, first of three and not active, was closed
C24_Witness ==
    /\ lastCall.op = "closeTab"
    /\ Len(Was.openTabs) = 3
    /\ Was.openTabs[1] = lastCall.fileId
    /\ Was.previewTabId = lastCall.fileId
    /\ Was.activeTabId = Was.openTabs[3]
    /\ Now.activeTabId = Was.openTabs[3]
    /\ Now.previewTabId = Null

\* C25: setActiveTab makes the file the active tab and leaves openTabs and
\* previewTabId as they were
C25_SetActiveKeepsTabs ==
    lastCall.op = "setActiveTab"
    => /\ Now.activeTabId = lastCall.fileId
       /\ Now.openTabs = Was.openTabs
       /\ Now.previewTabId = Was.previewTabId

\* C25 witness: setActiveTab activated the preview tab, which stays in
\* preview
C25_Witness ==
    /\ lastCall.op = "setActiveTab"
    /\ Was.previewTabId = lastCall.fileId
    /\ Was.activeTabId # lastCall.fileId
    /\ Len(Was.openTabs) >= 2
    /\ Now.previewTabId = lastCall.fileId
    /\ Now.activeTabId = lastCall.fileId

\* C26: getTabState leaves the store as it is; for a project with no stored
\* state it returns the empty default, and otherwise the state stored for
\* the project (the empty state after closeAllTabs)
C26_GetTabStateReadsOnly ==
    [][lastRead'.projectId # Null =>
          LET p == lastRead'.projectId
          IN  /\ tabs' = tabs
              /\ defaultTabState' = defaultTabState
              /\ lastRead'.result =
                    (IF tabs[p] = NoEntry \/ tabs[p] = DefaultRef
                     THEN [openTabs |-> <<>>, activeTabId |-> Null,
                           previewTabId |-> Null]
                     ELSE tabs[p])]_vars

\* C26 witness: getTabState was called for a project that has no entry, and
\* returned the empty state, while the other project has tabs open
C26_Witness ==
    /\ lastRead.projectId = "p2"
    /\ tabs["p2"] = NoEntry
    /\ lastRead.result = [openTabs |-> <<>>, activeTabId |-> Null,
                          previewTabId |-> Null]
    /\ tabs["p1"] # NoEntry
    /\ tabs["p1"] # DefaultRef
    /\ Len(tabs["p1"].openTabs) >= 2

(***************************************************************************)
(* Inline suggestion extension: blank documents, stale sessions            *)
(***************************************************************************)
\* C27: when the debounce timer fires on an empty or whitespace-only
\* document, no request is issued, the waiting flag becomes false and the
\* stored suggestion becomes absent
C27_BlankDocumentSkipsRequest ==
    [][\A v \in mounted :
          (/\ lastStep'.kind = "timer"
           /\ \E t \in timers : t.id = lastStep'.id /\ t.view = v
           /\ \A i \in 1..Len(doc[v]) : doc[v][i] = " ")
             => /\ requests' = requests
                /\ currentAbortController' = currentAbortController
                /\ ~isWaitingForSuggestion'
                /\ suggestion'[v] = NoSuggestion]_vars

\* C27 witness: the timer fired on a whitespace-only document after an
\* earlier request had settled; nothing was issued for it
C27_Witness ==
    /\ lastStep.kind = "timer"
    /\ doc["v1"] = <<" ">>
    /\ \E r \in DOMAIN requests : requests[r].state = "settled"
    /\ requests[lastStep.id].state = "none"
    /\ ~isWaitingForSuggestion
    /\ suggestion["v1"] = NoSuggestion

\* C30: a selection collapse that ends the session aborts the request in
\* flight, and a quick-edit response changes the document only while the
\* session is active
C30_CollapseAbortsRequest ==
    [][/\ (qeLast'.kind = "select" /\ quickEditState /\ ~quickEditState') =>
             \A r \in DOMAIN qeRequests :
                 qeRequests'[r].state = "inflight" => qeRequests'[r].aborted
       /\ (QeSettleStep /\ qeDoc' # qeDoc) => quickEditState]_vars

(***************************************************************************)
(* File store: properties                                                  *)
(***************************************************************************)
\* two distinct entries of one project with the same parent and type
SameSlot(a, b) ==
    /\ a._id # b._id
    /\ a.projectId = b.projectId
    /\ a.parentId = b.parentId
    /\ a.type = b.type

UniqueNames(table) ==
    \A a, b \in table : SameSlot(a, b) => a.name # b.name

\* the call just made, by the owner, would put a second entry of the same
\* name, parent and type into the table
WouldDuplicate(call) ==
    /\ call.caller = ProjectOwner
    /\ \/ /\ call.op = "createFile"
          /\ \E f \in files : /\ f.parentId = call.parentId
                              /\ f.type = "file"
                              /\ f.name = call.name
       \/ /\ call.op = "createFolder"
          /\ \E f \in files : /\ f.parentId = call.parentId
                              /\ f.type = "folder"
                              /\ f.name = call.name
       \/ /\ call.op = "renameFile"
          /\ \E e, f \in files : /\ e._id = call.id
                                 /\ SameSlot(e, f)
                                 /\ f.name = call.name

\* C28: after every createFile, createFolder and renameFile call no two
\* entries with the same parent and the same type have the same name, and an
\* owner's call that would create such a pair fails with CONFLICT and leaves
\* the table and the project as they were.
C28_SiblingNamesUnique ==
    [][/\ UniqueNames(files')
       /\ WouldDuplicate(lastFs') =>
             /\ lastFs'.result = "CONFLICT"
             /\ files' = files
             /\ projectUpdatedAt' = projectUpdatedAt]_vars

\* a createFolder call has just been refused under a parent that holds a
\* file and a folder of the name asked for
C28_Witness ==
    /\ lastFs.result = "CONFLICT"
    /\ lastFs.op = "createFolder"
    /\ \E a, b \in files : /\ a.parentId = lastFs.parentId
                           /\ b.parentId = lastFs.parentId
                           /\ a.name = lastFs.name
                           /\ b.name = lastFs.name
                           /\ a.type = "file"
                           /\ b.type = "folder"

\* C29: an owner's renameFile(id, newName) of an existing entry fails with
\* CONFLICT exactly when another entry with the same parent and the same type
\* has newName; a file renamed to the name of a sibling folder succeeds.
C29_RenameConflictScopedToType ==
    [][(/\ lastFs'.op = "renameFile"
        /\ lastFs'.caller = ProjectOwner
        /\ dbGet(files, lastFs'.id) # {}) =>
          (lastFs'.result = "CONFLICT" <=> WouldDuplicate(lastFs'))]_vars

(***************************************************************************)
(* Suggestion pipeline: the waiting flag                                   *)
(***************************************************************************)
\* C31: the waiting flag is true in every state in which a debounce timer is
\* pending or a request that has not been aborted is in flight.
C31_WaitingWhilePending ==
    (\/ timers # {}
     \/ \E r \in DOMAIN requests :
           requests[r].state = "inflight" /\ ~requests[r].aborted)
        => isWaitingForSuggestion

\* the pipeline has come to rest on the result of the last event's request
AtRest ==
    /\ ~isWaitingForSuggestion
    /\ lastResult.set
    /\ \A v \in mounted : suggestion[v] = lastResult.outcome

\* C32: once events stop and every issued request resolves, the waiting flag
\* is eventually false for good and the stored suggestion is, for good, what
\* the request of the last event returned (none for a blank document).
C32_SettlesOnLastRequest == <>[]AtRest

(***************************************************************************)
(* Quick-edit: the range a result is applied to                            *)
(***************************************************************************)
\* C33: whenever a quick-edit result is applied, the text it removes from the
\* document is exactly the selected text captured at submission, also when
\* the document was edited while the request was in flight.
C33_AppliedResultRemovesSelectedText ==
    [][(/\ qeLast'.kind = "resolve"
        /\ Truthy(qeLast'.outcome)
        /\ qeRequests[qeLast'.id].state = "inflight")
          => LET req == qeRequests[qeLast'.id]
             IN  SliceString(qeDoc, req.from, req.to) = req.selectedCode]_vars

(***************************************************************************)
(* Suggestion pipeline: two editor instances                               *)
(***************************************************************************)
\* the step is an event, a timer expiry, a request settling, a mount or a
\* destroy of this editor
ActsIn(view) ==
    \/ \E c \in Chars : InsertChar(view, c)
    \/ \E d \in InitialDocs : Mount(view, d)
    \/ Destroy(view)
    \/ \E t \in timers : t.view = view /\ TimerFires(t)
    \/ \E id \in DOMAIN requests :
          /\ requests[id].view = view
          /\ \E outcome \in AllOutcomes : FetchSettles(id, outcome)

\* the step leaves the pending timer, the in-flight request and the waiting
\* flag of this editor as they were
Untouched(view) ==
    /\ \A t \in timers : t.view = view => t \in timers'
    /\ \A r \in DOMAIN requests :
          (requests[r].view = view /\ requests[r].state = "inflight")
             => requests'[r].aborted = requests[r].aborted
    /\ isWaitingForSuggestion' = isWaitingForSuggestion

\* C34: a qualifying event, timer expiry, request resolution, mount or destroy
\* in one editor never cancels the pending timer, aborts the in-flight
\* request or changes the waiting flag of another editor that is alive.
C34_InstancesIndependent ==
    [][\A v \in Views : ActsIn(v) =>
          \A o \in (mounted \cap mounted') \ {v} : Untouched(o)]_vars

(***************************************************************************)
(* Quick-edit: the tooltip as a projection of the state                    *)
(***************************************************************************)
\* C35: after every transaction the tooltip set is non-empty exactly when the
\* session is active and the main selection is non-empty, and it then holds
\* one tooltip, anchored at the end of the main selection.
C35_TooltipProjectsState ==
    /\ (quickEditTooltips # {}) <=> (quickEditState /\ ~IsEmpty(qeSelection))
    /\ quickEditTooltips # {} =>
          quickEditTooltips = {[pos |-> qeSelection.to]}

\* C35 witness: the selection of an active session was changed to another
\* non-empty range and the tooltip has moved to its end
C35_Witness ==
    /\ qeLast.kind = "select"
    /\ qeLast.wasActive
    /\ quickEditState
    /\ quickEditTooltips = {[pos |-> qeSelection.to]}

(***************************************************************************)
(* Tab store: the active tab under setActiveTab on open tabs only          *)
(***************************************************************************)
\* C36: when setActiveTab is only called with a file that is in openTabs,
\* every project's activeTabId is none exactly when its openTabs is empty and
\* is otherwise an element of openTabs.
C36_ActiveTabTracksOpenTabs ==
    \A p \in Projects :
        LET st == getTabState(p)
        IN  /\ (st.activeTabId = Null) <=> (st.openTabs = <<>>)
            /\ st.openTabs # <<>> => Includes(st.openTabs, st.activeTabId)

\* C36 witness: the active tab, not the last one, has just been closed while
\* other tabs stay open, and a remaining tab is active
C36_Witness ==
    /\ lastCall.op = "closeTab"
    /\ Was.activeTabId = lastCall.fileId
    /\ Len(Now.openTabs) = 2
    /\ Includes(Now.openTabs, Now.activeTabId)

(***************************************************************************)
(* Tab store: idempotence                                                  *)
(***************************************************************************)
\* the call of this step repeats the call that produced the current state
SameCallAgain ==
    /\ lastCall'.op = lastCall.op
    /\ lastCall'.projectId = lastCall.projectId
    /\ lastCall'.fileId = lastCall.fileId
    /\ lastCall'.pinned = lastCall.pinned

\* C37: openFile(P, F, pinned) applied a second time in a row leaves the store
\* as the first application left it, and so does closeTab(P, F).
C37_OpenAndCloseIdempotent ==
    [][(SameCallAgain /\ lastCall.op \in {"openFile", "closeTab"})
          => (tabs' = tabs /\ defaultTabState' = defaultTabState)]_vars

\* C37 witness: a pinned openFile has found the file open, pinned and active
\* among several tabs, as the repetition of a pinned open does, and the
\* project's state is what it was
C37_Witness ==
    /\ lastCall.op = "openFile"
    /\ lastCall.pinned
    /\ Len(Now.openTabs) >= 2
    /\ Now.previewTabId # Null
    /\ Includes(Was.openTabs, lastCall.fileId)
    /\ Was.activeTabId = lastCall.fileId
    /\ Was = Now

(***************************************************************************)
(* Autosave: properties                                                    *)
(***************************************************************************)
\* every file is stored with the content its editor last reported
AllSaved == \A f \in AutoFiles : serverContent[f] = lastEdited[f]

\* C38: after the last edit of a file updateFile is eventually called with
\* the file's id and its final content, also when the active tab changes
\* inside the debounce window; and updateFile is never called with one
\* file's content under another file's id.
C38_AutosaveReachesServer ==
    /\ [](lastUpdate.called => lastUpdate.content.of = lastUpdate.id)
    /\ <>[]AllSaved

\* the files of one parent carry pairwise different names
UniqueFileNamesUnder(table, parentId) ==
    \A a, b \in table :
        (/\ a._id # b._id
         /\ a.parentId = parentId /\ b.parentId = parentId
         /\ a.type = "file" /\ b.type = "file") => a.name # b.name

\* the name is the name of a file under the parent
NameTaken(table, parentId, name) ==
    \E f \in table : f.parentId = parentId /\ f.type = "file" /\ f.name = name

\* C39: after createFiles(project, parent, files) no two files under that
\* parent have the same name, also when the batch repeats a name; every batch
\* entry whose name was taken by a file under that parent is reported with
\* the error "File already exists" and is not inserted
C39_BulkKeepsNamesUnique ==
    [][(/\ lastFs'.op = "createFiles"
        /\ lastFs'.caller = InternalKey
        /\ UniqueFileNamesUnder(files, lastFs'.parentId)) =>
          /\ UniqueFileNamesUnder(files', lastFs'.parentId)
          /\ \A i \in DOMAIN lastFs'.name :
                NameTaken(files, lastFs'.parentId, lastFs'.name[i]) =>
                   /\ lastFs'.result[i].error = "File already exists"
                   /\ ~\E f \in files' \ files : f.name = lastFs'.name[i]]_vars

\* the ids on the parent chain of an entry, as far as the table holds it
RECURSIVE Ancestors(_, _)
Ancestors(table, f) ==
    IF f.parentId = NoParent
    THEN {}
    ELSE {f.parentId} \cup
         UNION {Ancestors(table, parent) : parent \in dbGet(table, f.parentId)}

\* the entry of that id and every entry that has it on its parent chain
Subtree(table, id) ==
    {f \in table : f._id = id \/ id \in Ancestors(table, f)}

\* the call just made was a delete, by a caller allowed to, of a folder
DeletedFolder ==
    /\ lastFs'.op \in {"deleteFile", "systemDeleteFile"}
    /\ lastFs'.result = "ok"
    /\ \E f \in dbGet(files, lastFs'.id) : f.type = "folder"

\* C40: deleteFile on a folder ends, and afterwards the folder and every
\* entry whose ancestor chain contains it are gone from the store, the blob
\* of every deleted entry that had one is gone from the storage, and every
\* entry outside the subtree is still there
C40_DeleteRemovesSubtree ==
    [][DeletedFolder =>
          LET subtree == Subtree(files, lastFs'.id)
          IN  /\ files' \cap subtree = {}
              /\ (files \ subtree) \subseteq files'
              /\ \A f \in files \ files' :
                    hasStorageId(f) => f.storageId \notin storage']_vars


====
